---- MODULE Spec2Model ----
(***************************************************************************)
(* A model of newVersion.py, the release script of the iTwin Mobile SDK.   *)
(* The script is sequential: it parses its command line, checks the node   *)
(* version and runs one subcommand handler, which rewrites version strings *)
(* in files of five sibling repositories and starts git, npm and gh.       *)
(*                                                                         *)
(* Strings are TLA+ strings, taken apart with Len, SubSeq and \o.          *)
(* External programs are modelled by their exit status and, for            *)
(* check_output, by their output; every program can be started.            *)
(***************************************************************************)
EXTENDS Integers, Sequences, FiniteSets

VARIABLES
    pc,        \* "start", "running", "exit0" (normal end) or "exit1" (line 817)
    argv,      \* the parsed command line: subcommand and flags
    args,      \* the argparse namespace the handlers read and write
    todo,      \* the calls the running handler still has to make, in order
    log,       \* what the script did so far: processes, rewrites, prints
    error,     \* the message of the exception that ended the run, or ""
    dirty,     \* per repository directory: does git diff --quiet exit 1?
    files,     \* the content of every file the script may rewrite
    repo,      \* per repository: local tags, pushed tags, releases, assets
    nodeOut,   \* what node --version printed
    latest_versions,  \* line 627: the answers of npm view, by package@prefix
    last,      \* input of get_next_release (the pure-function specification)
    next       \* its outcome: [ok |-> TRUE, v |-> release] or [ok |-> FALSE, ...]

vars ==
    <<pc, argv, args, todo, log, error, dirty, files, repo, nodeOut, latest_versions,
      last, next>>

(***************************************************************************)
(* Python's str, int, split and join on the strings the script handles.    *)
(***************************************************************************)
Digits == <<"0", "1", "2", "3", "4", "5", "6", "7", "8", "9">>

CharAt(s, i) == SubSeq(s, i, i)

IsDigit(c) == \E d \in 1..10 : Digits[d] = c

DigitVal(c) == (CHOOSE d \in 1..10 : Digits[d] = c) - 1

\* str(n) for n >= 0
RECURSIVE str(_)
str(n) == IF n < 10 THEN Digits[n + 1] ELSE str(n \div 10) \o Digits[(n % 10) + 1]

\* str(n) for any integer
pystr(n) == IF n < 0 THEN "-" \o str(0 - n) ELSE str(n)

AllDigits(s) == Len(s) > 0 /\ \A i \in 1..Len(s) : IsDigit(CharAt(s, i))

\* the value of a string of decimal digits
RECURSIVE int(_)
int(s) ==
    IF Len(s) = 0 THEN 0
    ELSE 10 * int(SubSeq(s, 1, Len(s) - 1)) + DigitVal(CharAt(s, Len(s)))

\* the strings Python's int() accepts, among those made of digits, ".", "-", "+"
\* and letters: an optional sign and decimal digits
IsIntLiteral(s) ==
    \/ AllDigits(s)
    \/ Len(s) > 1 /\ CharAt(s, 1) \in {"-", "+"} /\ AllDigits(SubSeq(s, 2, Len(s)))

\* int(s) for such a string
pyint(s) ==
    IF AllDigits(s) THEN int(s)
    ELSE IF CharAt(s, 1) = "-" THEN 0 - int(SubSeq(s, 2, Len(s)))
    ELSE int(SubSeq(s, 2, Len(s)))

\* s.split('.'): the components between the dots, empty ones included
RECURSIVE split(_)
split(s) ==
    IF \A i \in 1..Len(s) : CharAt(s, i) # "."
    THEN <<s>>
    ELSE LET i == CHOOSE k \in 1..Len(s) :
                      CharAt(s, k) = "." /\ \A j \in 1..(k - 1) : CharAt(s, j) # "."
         IN  <<SubSeq(s, 1, i - 1)>> \o split(SubSeq(s, i + 1, Len(s)))

\* '.'.join(parts)
RECURSIVE join(_)
join(parts) ==
    IF Len(parts) = 0 THEN ""
    ELSE IF Len(parts) = 1 THEN parts[1]
    ELSE parts[1] \o "." \o join(Tail(parts))

HasPrefix(s, p) == Len(s) >= Len(p) /\ SubSeq(s, 1, Len(p)) = p

(***************************************************************************)
(* get_next_release (lines 616-622).  int() raises ValueError on a third   *)
(* component that is not a decimal integer; both exceptions end the run.   *)
(***************************************************************************)
Raise(msg) == [ok |-> FALSE, v |-> "", err |-> msg]

Return(value) == [ok |-> TRUE, v |-> value, err |-> ""]

get_next_release_bumps_minor(last_release) ==
    LET parts == split(last_release) IN
    IF Len(parts) = 3
    THEN IF IsIntLiteral(parts[2])
         THEN Return(join(<<parts[1], pystr(pyint(parts[2]) + 1), parts[3]>>))
         ELSE Raise("ValueError: invalid literal for int()")
    ELSE Raise("Error: Could not parse last release: " \o last_release)

get_next_release(last_release) ==
    LET parts == split(last_release) IN
    IF Len(parts) = 3
    THEN IF IsIntLiteral(parts[3])
         THEN Return(join(<<parts[1], parts[2], pystr(pyint(parts[3]) + 1)>>))
         ELSE Raise("ValueError: invalid literal for int()")
    ELSE Raise("Error: Could not parse last release: " \o last_release)

(***************************************************************************)
(* The editable globals (lines 17-107) and MobileSdkDirs (lines 113-141).  *)
(* A directory is named by its path relative to the parent directory.      *)
(***************************************************************************)
itwin_base_version_search_list ==
    <<"3.2.", "3.3.", "3.4.", "3.5.", "3.6.", "3.7.", "4.0.", "4.1.", "4.2.", "4.3.", "4.4.">>

mobile_base_version == "0.22."

mobile_base_version_search_list == <<"0.21.", "0.22.">>

react_app_subdir == "cross-platform/react-app"

token_server_subdir == "cross-platform/token-server"

itwin_non_core_packages ==
    {"eslint-plugin", "measure-tools-react", "mobile-sdk-core", "mobile-ui-react",
     "appui-react", "components-react", "core-react", "imodel-components-react",
     "appui-layout-react", "imodels-access-backend", "imodels-access-frontend",
     "itwins-client", "imodels-client-management", "presentation-components"}

git_branch == "main"

ios_sample_names == <<"CameraSample", "MobileStarter", "SwiftUIStarter", "ThirdPartyAuth">>

android_sample_names == <<"CameraSample", "iTwinStarter", "ThirdPartyAuth">>

react_native_sample_names == <<"iTwinRNStarter">>

relative_dirs ==
    <<"mobile-sdk-ios", "mobile-sdk-android", "mobile-sdk-core", "mobile-ui-react",
      "mobile-samples">>

sdk_ios == relative_dirs[1]
sdk_android == relative_dirs[2]
sdk_core == relative_dirs[3]
ui_react == relative_dirs[4]
samples == relative_dirs[5]

\* os.path.join(sdk_dirs.samples, react_app_subdir) and the like (lines 359-360)
react_app_dir == samples \o "/" \o react_app_subdir

token_server_dir == samples \o "/" \o token_server_subdir

Dirs == {relative_dirs[i] : i \in 1..Len(relative_dirs)}

Range(seq) == {seq[i] : i \in 1..Len(seq)}

\* the concatenation of the sequences F(seq[1]), F(seq[2]), ...
RECURSIVE FlatMap(_, _)
FlatMap(F(_), seq) == IF seq = <<>> THEN <<>> ELSE F(Head(seq)) \o FlatMap(F, Tail(seq))

(***************************************************************************)
(* A file is a sequence of lines.  A line is what the script's regular     *)
(* expressions can see of it: the text k that anchors a pattern, the       *)
(* @itwin package it names (pkg), the version text v after the anchor, and *)
(* what follows the version (tail); anchors are written without their      *)
(* quote characters.  Versions are made of the characters                  *)
(* [.0-9a-z-] that every pattern's character class accepts.                *)
(***************************************************************************)
Line(k, pkg, v, tail) == [k |-> k, pkg |-> pkg, v |-> v, tail |-> tail]

Text(k) == Line(k, "", "", "")

\* a replacement tuple: a search expression and what replaces the version
\* (la: the expression stops before a trailing "-debug", line 315)
Tuple(k, pkg, base, digit1, rep, is_itwin) ==
    [k |-> k, pkg |-> pkg, base |-> base, digit1 |-> digit1, rep |-> rep,
     is_itwin |-> is_itwin, la |-> FALSE]

\* a tuple that accepts any version after its anchor
Simple(k, rep) == Tuple(k, "", "", FALSE, rep, FALSE)

\* lines 143-148
is_itwin_non_core_project_line(line, is_itwin) ==
    is_itwin /\ line.pkg \in itwin_non_core_packages

\* re.search(search_exp, line): the anchor, then the base version, then at least
\* one more version character ("[0-9][.0-9a-z-]+": a digit and one more)
Search(tuple, line) ==
    /\ line.k = tuple.k
    /\ IF tuple.pkg = "*" THEN line.pkg # "" ELSE line.pkg = tuple.pkg
    /\ HasPrefix(line.v, tuple.base)
    /\ Len(line.v) > Len(tuple.base)
    /\ tuple.digit1 => (Len(line.v) >= 2 /\ IsDigit(CharAt(line.v, 1)))

\* re.sub(search_exp, replace_exp, line): the character class also takes a
\* trailing "-debug" unless the expression looks ahead for it
Sub(tuple, line) ==
    [line EXCEPT !.v = tuple.rep, !.tail = IF tuple.la THEN @ ELSE ""]

\* lines 160-164: one line against every tuple in turn; a later tuple sees the
\* line as the earlier ones left it
RECURSIVE ReplaceLine_counts_once(_, _, _)
ReplaceLine_counts_once(line, replacements, found) ==
    IF replacements = <<>> THEN [line |-> line, found |-> found]
    ELSE LET tuple == Head(replacements) IN
         IF Search(tuple, line) /\ ~is_itwin_non_core_project_line(line, tuple.is_itwin)
         THEN ReplaceLine_counts_once(Sub(tuple, line), Tail(replacements), 1)
         ELSE ReplaceLine_counts_once(line, Tail(replacements), found)

RECURSIVE ReplaceLine(_, _, _)
ReplaceLine(line, replacements, found) ==
    IF replacements = <<>> THEN [line |-> line, found |-> found]
    ELSE LET tuple == Head(replacements) IN
         IF Search(tuple, line) /\ ~is_itwin_non_core_project_line(line, tuple.is_itwin)
         THEN ReplaceLine(Sub(tuple, line), Tail(replacements), found + 1)
         ELSE ReplaceLine(line, Tail(replacements), found)

\* lines 156-166: the rewritten lines and num_found
RECURSIVE replace_all(_, _)
replace_all(lines, replacements) ==
    IF lines = <<>> THEN [lines |-> <<>>, num_found |-> 0]
    ELSE LET one == ReplaceLine(Head(lines), replacements, 0)
             rest == replace_all(Tail(lines), replacements)
         IN  [lines |-> <<one.line>> \o rest.lines,
              num_found |-> one.found + rest.num_found]

\* lines 168-172
itwin_base_version_search_tuples(k, pkg, second_value, is_itwin) ==
    [i \in 1..Len(itwin_base_version_search_list) |->
        Tuple(k, pkg, itwin_base_version_search_list[i], FALSE, second_value, is_itwin)]

\* lines 174-178
mobile_base_version_search_tuples(k, second_value) ==
    [i \in 1..Len(mobile_base_version_search_list) |->
        Tuple(k, "", mobile_base_version_search_list[i], FALSE, second_value, FALSE)]

(***************************************************************************)
(* The rewriting routines (lines 198-330).  Each takes the namespace and   *)
(* the file, [exists, lines], and yields the lines it leaves on disk, the  *)
(* count it compared (n, -1 when it counts nothing) and the message of the *)
(* exception it raised ("" when it returned).                              *)
(***************************************************************************)
File(lines) == [exists |-> TRUE, lines |-> lines]

NoFile == [exists |-> FALSE, lines |-> <<>>]

Rewritten(lines, n, err) == [lines |-> lines, n |-> n, err |-> err]

\* fileinput.input on a file that does not exist
NotFound(file) == Rewritten(file.lines, -1, "FileNotFoundError: No such file or directory")

\* lines 180-196, with the versions npm view gave (latest_versions)
NonCoreGroups ==
    <<[packages |-> <<"appui-react", "components-react", "core-react",
                      "imodel-components-react">>, prefix |-> "4"],
      [packages |-> <<"appui-layout-react">>, prefix |-> "4"],
      [packages |-> <<"imodels-access-backend", "imodels-access-frontend">>, prefix |-> "4"],
      [packages |-> <<"itwins-client">>, prefix |-> "1"],
      [packages |-> <<"imodels-client-management">>, prefix |-> "4"],
      [packages |-> <<"presentation-components">>, prefix |-> "4"]>>

VersionKey(package, prefix) == "@itwin/" \o package \o "@" \o prefix

get_packages_tuples(group, versions) ==
    [i \in 1..Len(group.packages) |->
        Tuple("dep", group.packages[i], "", TRUE,
              versions[VersionKey(group.packages[1], group.prefix)], FALSE)]

get_itwin_non_core_tuples(versions) ==
    LET F(group) == get_packages_tuples(group, versions) IN FlatMap(F, NonCoreGroups)

\* lines 198-218
modify_package_json(a, file, versions) ==
    IF ~file.exists THEN Rewritten(file.lines, -1, "")
    ELSE LET tuples ==
                 get_itwin_non_core_tuples(versions)
                 \o <<Simple("version: ", a.new_mobile)>>
                 \o itwin_base_version_search_tuples("dep", "*", a.new_itwin, TRUE)
                 \o <<Tuple("dep", "mobile-sdk-core", "", TRUE, a.current_mobile, FALSE),
                      Tuple("dep", "mobile-ui-react", "", TRUE, a.current_mobile, FALSE)>>
             r == replace_all(file.lines, tuples)
         IN  Rewritten(r.lines, r.num_found,
                       IF r.num_found < 2 THEN "Not enough replacements" ELSE "")

\* lines 220-254; dir decides whether the mobile-sdk-ios replacements are made
modify_readme_md(a, dir, file) ==
    IF ~file.exists THEN Rewritten(file.lines, -1, "Error: Cannot find README.md")
    ELSE LET r1 == replace_all(file.lines,
                       itwin_base_version_search_tuples("__iTwin.js ", "", a.new_itwin, FALSE))
         IN
         IF r1.num_found < 1 THEN Rewritten(r1.lines, r1.num_found, "Not enough replacements")
         ELSE IF dir # sdk_ios THEN Rewritten(r1.lines, r1.num_found, "")
         ELSE LET r2 == replace_all(r1.lines,
                      mobile_base_version_search_tuples(
                          "Dependency Rule to Exact Version and the version to ",
                          a.new_mobile)
                      \o mobile_base_version_search_tuples(
                          "https://github.com/iTwin/mobile-sdk-ios, .exact(",
                          a.new_mobile)
                      \o itwin_base_version_search_tuples(
                          "https://github.com/iTwin/mobile-native-ios/releases/download/",
                          "", a.new_add_on, FALSE)
                      \o mobile_base_version_search_tuples(
                          "https://github.com/iTwin/mobile-sdk-ios/releases/download/",
                          a.new_mobile)
                      \o itwin_base_version_search_tuples(
                          "itwin-mobile-native CocoaPod to version ", "", a.new_add_on, FALSE))
              IN  Rewritten(r2.lines, r2.num_found,
                            IF r2.num_found < 5 THEN "Not enough replacements" ELSE "")

\* what a routine that compares num_found with one number leaves and raises
Counted(file, tuples, Bad(_), msg) ==
    IF ~file.exists THEN NotFound(file)
    ELSE LET r == replace_all(file.lines, tuples)
         IN  Rewritten(r.lines, r.num_found, IF Bad(r.num_found) THEN msg ELSE "")

\* lines 256-259
modify_package_swift(a, file) ==
    LET Bad(n) == n # 1
    IN  Counted(file, <<Simple("mobile-native-ios, .exact(", a.new_add_on)>>,
                Bad, "Not enough replacements")

\* two substitutions are the least, not the only number accepted
modify_podspec_accepts_more(a, file) ==
    LET Bad(n) == n < 2
    IN  Counted(file,
                <<Simple("spec.version = ", a.new_mobile),
                  Simple("spec.dependency itwin-mobile-native, ", a.new_add_on)>>,
                Bad, "Not enough replacements")

\* lines 261-266
modify_podspec(a, file) ==
    LET Bad(n) == n # 2
    IN  Counted(file,
                <<Simple("spec.version = ", a.new_mobile),
                  Simple("spec.dependency itwin-mobile-native, ", a.new_add_on)>>,
                Bad, "Not enough replacements")

\* lines 309-319
modify_build_gradle(a, file) ==
    LET Bad(n) == n # 4
    IN  Counted(file,
                <<Simple("versionName ", a.new_mobile),
                  [Simple("version = ", a.new_mobile) EXCEPT !.la = TRUE],
                  Simple("api com.github.itwin:mobile-native-android:", a.new_add_on)>>,
                Bad, "Wrong number of replacements")

\* lines 321-330
modify_sample_build_gradle(a, file) ==
    LET Bad(n) == n # 1
    IN  Counted(file,
                <<Simple("implementation com.github.itwin:mobile-sdk-android:", a.new_mobile)>>,
                Bad, "Wrong number of replacements")

(***************************************************************************)
(* The namespace: an attribute argparse or the script never set is Absent  *)
(* (hasattr is False), an option that was not given is None.               *)
(***************************************************************************)
Absent == "<absent>"

None == "<None>"

hasattr(a, name) == a[name] # Absent

\* Python truth of an attribute that may be missing, None or a string
Truthy(a, name) == a[name] \notin {Absent, None, ""}

\* lines 450-451
skip_commit_id(a) == hasattr(a, "skip_commit_id") /\ a.skip_commit_id = "True"

IsHex(s) ==
    \A i \in 1..Len(s) :
        \/ IsDigit(CharAt(s, i))
        \/ CharAt(s, i) \in {"a", "b", "c", "d", "e", "f", "A", "B", "C", "D", "E", "F"}

\* re.search([a-z-], s), for a version made of digits, dots, a-z and hyphens
HasLowerOrHyphen(s) ==
    \E i \in 1..Len(s) : ~IsDigit(CharAt(s, i)) /\ CharAt(s, i) # "."

\* lines 299-306: what one line becomes for the package last named
ResolvedLine(a, package, line) ==
    LET version(v) == IF line.k = "version" /\ Len(line.v) > 0 /\ IsDigit(CharAt(line.v, 1))
                      THEN [line EXCEPT !.v = v] ELSE line
        revision(l, v) == IF l.k = "revision" /\ IsHex(l.v) THEN [l EXCEPT !.v = v] ELSE l
    IN
    IF package \in {"itwin-mobile-native", "mobile-native-ios"}
    THEN IF Truthy(a, "new_add_on_commit_id")
         THEN revision(version(a.new_add_on), a.new_add_on_commit_id)
         ELSE version(a.new_add_on)
    ELSE IF package \in {"itwin-mobile-sdk", "mobile-sdk-ios"} /\ ~skip_commit_id(a)
    THEN IF Truthy(a, "new_commit_id")
         THEN revision(version(a.new_mobile), a.new_commit_id)
         ELSE version(a.new_mobile)
    ELSE line

\* lines 291-307: the loop, package being the name last seen
RECURSIVE ResolvedLines(_, _, _)
ResolvedLines(a, package, lines) ==
    IF lines = <<>> THEN <<>>
    ELSE LET line == Head(lines)
             now == IF line.k \in {"package", "identity"} THEN line.v ELSE package
         IN  <<ResolvedLine(a, now, line)>> \o ResolvedLines(a, now, Tail(lines))

\* lines 288-307
modify_package_resolved(a, file) ==
    IF ~file.exists THEN NotFound(file)
    ELSE Rewritten(ResolvedLines(a, None, file.lines), -1, "")

\* lines 274-281: the loop, repository being None or mobile-sdk-ios
RECURSIVE PbxprojLines(_, _, _)
PbxprojLines(new_mobile, repository, lines) ==
    IF lines = <<>> THEN <<>>
    ELSE LET line == Head(lines)
             now == IF line.k = "repositoryURL"
                       /\ line.v = "https://github.com/iTwin/mobile-sdk-ios.git"
                    THEN "mobile-sdk-ios" ELSE repository
             hit == now = "mobile-sdk-ios" /\ line.k = "version = "
         IN  <<IF hit THEN [line EXCEPT !.v = new_mobile] ELSE line>>
             \o PbxprojLines(new_mobile, IF hit THEN None ELSE now, Tail(lines))

\* lines 268-281
modify_project_pbxproj(a, file) ==
    LET new_mobile == IF HasLowerOrHyphen(a.new_mobile)
                      THEN "\"" \o a.new_mobile \o "\"" ELSE a.new_mobile
    IN  IF ~file.exists THEN NotFound(file)
        ELSE Rewritten(PbxprojLines(new_mobile, None, file.lines), -1, "")

(***************************************************************************)
(* The files the script rewrites, named by their paths below the parent    *)
(* directory (lines 337-344, 371, 394-398, 437-463).                       *)
(***************************************************************************)
path_join(a, b) == a \o "/" \o b

\* lines 437-444
get_xcodeproj_dirs ==
    LET ios(n) == <<path_join(samples, "iOS/" \o n \o "/" \o n \o ".xcodeproj"),
                    path_join(samples, "iOS/" \o n \o "/LocalSDK_" \o n \o ".xcodeproj")>>
        rn(n) == <<path_join(samples, "ReactNative/" \o n \o "/ios/" \o n \o ".xcodeproj")>>
    IN  FlatMap(ios, ios_sample_names) \o FlatMap(rn, react_native_sample_names)

\* line 448
PbxprojFiles ==
    [i \in 1..Len(get_xcodeproj_dirs) |-> path_join(get_xcodeproj_dirs[i], "project.pbxproj")]

\* line 457
SampleResolvedFiles ==
    [i \in 1..Len(get_xcodeproj_dirs) |->
        path_join(get_xcodeproj_dirs[i],
                  "project.xcworkspace/xcshareddata/swiftpm/Package.resolved")]

\* lines 459-463
SampleGradleFiles ==
    LET android(n) == <<path_join(samples, "Android/" \o n \o "/app/build.gradle")>>
        rn(n) == <<path_join(samples, "ReactNative/" \o n \o "/android/app/build.gradle")>>
    IN  FlatMap(android, android_sample_names) \o FlatMap(rn, react_native_sample_names)

SharedGradleFile == path_join(samples, "Android/Shared/build.gradle")

PackageSwift == path_join(sdk_ios, "Package.swift")
PackageResolved == path_join(sdk_ios, "Package.resolved")
Podspec == path_join(sdk_ios, "itwin-mobile-sdk.podspec")
BuildGradle == path_join(sdk_android, "mobile-sdk/build.gradle")

Readme(dir) == path_join(dir, "README.md")

PackageJson(dir) == path_join(dir, "package.json")

PackageJsonDirs == {sdk_core, ui_react, react_app_dir, token_server_dir}

Files ==
    {PackageSwift, PackageResolved, Podspec, BuildGradle, SharedGradleFile,
     Readme(sdk_ios), Readme(sdk_android)}
    \cup {PackageJson(d) : d \in PackageJsonDirs}
    \cup Range(PbxprojFiles) \cup Range(SampleResolvedFiles) \cup Range(SampleGradleFiles)

\* the repository a file or a directory belongs to
RepoOf(path) == CHOOSE d \in Dirs : HasPrefix(path, d)

(***************************************************************************)
(* The files as a checkout of the five repositories holds them: every      *)
(* version reference the script looks for is there once.                   *)
(***************************************************************************)
ResolvedPins ==
    <<Line("identity", "", "mobile-native-ios", ""), Line("revision", "", "0a1b", ""),
      Line("version", "", "4.4.10", ""),
      Line("identity", "", "swift-collections", ""), Line("revision", "", "77cc", ""),
      Line("version", "", "1.0.4", "")>>

Shipped(f) ==
    IF f = PackageSwift THEN
        <<Line("mobile-native-ios, .exact(", "", "4.4.10", ""), Text("targets: [")>>
    ELSE IF f = PackageResolved THEN ResolvedPins
    ELSE IF f = Podspec THEN
        <<Line("spec.version = ", "", "0.22.4", ""), Text("spec.summary"),
          Line("spec.dependency itwin-mobile-native, ", "", "4.4.10", "")>>
    ELSE IF f = Readme(sdk_ios) THEN
        <<Line("__iTwin.js ", "", "4.4.1", ""),
          Line("Dependency Rule to Exact Version and the version to ", "", "0.22.4", ""),
          Line("https://github.com/iTwin/mobile-sdk-ios, .exact(", "", "0.22.4", ""),
          Line("https://github.com/iTwin/mobile-native-ios/releases/download/", "",
               "4.4.10", ""),
          Line("https://github.com/iTwin/mobile-sdk-ios/releases/download/", "", "0.22.4", ""),
          Line("itwin-mobile-native CocoaPod to version ", "", "4.4.10", "")>>
    ELSE IF f = Readme(sdk_android) THEN
        <<Line("__iTwin.js ", "", "4.4.1", ""), Text("## Setup")>>
    ELSE IF f = BuildGradle THEN
        <<Line("versionName ", "", "0.22.4", ""), Line("version = ", "", "0.22.4", ""),
          Line("version = ", "", "0.22.4", "-debug"),
          Line("api com.github.itwin:mobile-native-android:", "", "4.4.10", "")>>
    ELSE IF f \in Range(SampleGradleFiles) \cup {SharedGradleFile} THEN
        <<Line("implementation com.github.itwin:mobile-sdk-android:", "", "0.22.4", "")>>
    ELSE IF f = PackageJson(sdk_core) THEN
        <<Line("version: ", "", "0.22.4", ""), Line("dep", "core-common", "4.4.1", ""),
          Line("dep", "appui-react", "4.9.0", "")>>
    ELSE IF f \in {PackageJson(d) : d \in PackageJsonDirs} THEN
        <<Line("version: ", "", "0.22.4", ""), Line("dep", "core-common", "4.4.1", ""),
          Line("dep", "mobile-sdk-core", "0.22.4", "")>>
    ELSE IF f \in Range(PbxprojFiles) THEN
        <<Line("repositoryURL", "", "https://github.com/iTwin/mobile-sdk-ios.git", ""),
          Line("version = ", "", "0.22.4", ""),
          Line("repositoryURL", "", "https://github.com/apple/swift-collections.git", ""),
          Line("version = ", "", "1.0.4", "")>>
    ELSE
        <<Line("identity", "", "mobile-sdk-ios", ""), Line("revision", "", "9f8e", ""),
          Line("version", "", "0.22.4", "")>> \o ResolvedPins

\* the same file with its first version reference missing, with its last one
\* missing, and with its first one twice
DropFirst(lines) == Tail(lines)

DropLast(lines) == SubSeq(lines, 1, Len(lines) - 1)

Twice(lines) == <<Head(lines)>> \o lines

\* the files whose rewriting routine compares a count
CountedFiles ==
    {PackageSwift, Podspec, BuildGradle, SharedGradleFile, Readme(sdk_ios),
     Readme(sdk_android)}
    \cup {PackageJson(d) : d \in PackageJsonDirs} \cup Range(SampleGradleFiles)

\* what may be found on disk in place of the shipped file f (a file whose
\* routine counts nothing: one without any version reference)
Found(f) ==
    {File(Shipped(f))}
    \cup (IF f \in CountedFiles
          THEN {File(DropFirst(Shipped(f))), File(DropLast(Shipped(f))),
                File(Twice(Shipped(f))), NoFile}
          ELSE {File(<<Text("{}")>>)})

ShippedFiles == [f \in Files |-> File(Shipped(f))]

\* the disks the runs start from: a checkout in which at most one file differs
Disks ==
    {ShippedFiles}
    \cup UNION {{[ShippedFiles EXCEPT ![f] = x] : x \in Found(f)} :
                   f \in CountedFiles \cup {PackageResolved, PbxprojFiles[1]}}

(***************************************************************************)
(* The command line (lines 722-802).  Every subcommand defines its own     *)
(* options; an option of another subcommand is not in the namespace.       *)
(***************************************************************************)
Handlers ==
    {"change", "bump", "changeitwin", "bumpitwin", "changeui", "bumpui", "changesamples",
     "bumpsamples", "stage1", "stage2", "stage3", "do", "test", "checkversions",
     "changesamplestest"}

\* add_common_change_arguments with required=True
RequiresVersions == {"change", "changeitwin", "changeui", "changesamples"}

\* add_common_change_arguments with required=False
OptionalVersions == {"bumpitwin", "test"}

\* add_new_mobile_argument alone, or through add_common_stage_arguments
OptionalNewMobile == {"bump", "bumpui", "bumpsamples", "stage1", "stage2"}

\* add_common_stage_arguments
HasTitleAndNotes == {"stage1", "stage2", "stage3"}

\* add_force_argument
HasForce == {"change", "bump", "changeitwin", "bumpitwin", "stage1", "test"}

Bool(b) == IF b THEN "True" ELSE "False"

NoAttributes ==
    [new_mobile |-> Absent, new_itwin |-> Absent, new_add_on |-> Absent,
     new_add_on_commit_id |-> Absent, new_commit_id |-> Absent, current_mobile |-> Absent,
     skip_commit_id |-> Absent, title |-> Absent, notes |-> Absent, force |-> Absent,
     print |-> Absent, strings |-> Absent]

\* parser.parse_args(): cmd is "" when no subcommand was given; given says
\* whether the options that may be left out were given
parse_args(cmd, given, force, print) ==
    LET opt(v) == IF given THEN v ELSE None IN
    [NoAttributes EXCEPT
        !.new_mobile = IF cmd \in RequiresVersions THEN "0.22.5"
                       ELSE IF cmd \in OptionalVersions \cup OptionalNewMobile
                       THEN opt("0.22.5") ELSE Absent,
        !.new_itwin = IF cmd \in RequiresVersions THEN "4.4.2"
                      ELSE IF cmd \in OptionalVersions THEN opt("4.4.2") ELSE Absent,
        !.new_add_on = IF cmd \in RequiresVersions THEN "4.4.11"
                       ELSE IF cmd \in OptionalVersions THEN opt("4.4.11") ELSE Absent,
        !.title = IF cmd \in HasTitleAndNotes THEN opt("Release candidate") ELSE Absent,
        !.notes = IF cmd \in HasTitleAndNotes THEN opt("Notes") ELSE Absent,
        !.force = IF cmd \in HasForce THEN Bool(force) ELSE Absent,
        !.print = IF cmd = "do" THEN Bool(print) ELSE Absent,
        !.strings = IF cmd = "do" THEN "git status" ELSE Absent]

\* the command lines the runs are started with
CommandLines ==
    {[cmd |-> c, given |-> g, force |-> f, print |-> p] :
        c \in Handlers \cup {""}, g \in BOOLEAN, f \in BOOLEAN, p \in BOOLEAN}

\* two command lines that parse_args does not tell apart are one
Distinct(lines) ==
    {l \in lines :
        /\ l.cmd \notin HasForce => ~l.force
        /\ l.cmd # "do" => ~l.print
        /\ l.cmd \notin OptionalVersions \cup OptionalNewMobile \cup HasTitleAndNotes
               => ~l.given}

\* lines 589-599: the ITM_ variables that are set replace the options
EnvNames == {"new_mobile", "new_itwin", "new_add_on", "new_add_on_commit_id"}

\* lines 596-599: the order of the fetch_arg_from_environment calls
EnvOrder == <<"new_mobile", "new_itwin", "new_add_on", "new_add_on_commit_id">>

process_environment(a, environ) ==
    [name \in DOMAIN a |->
        IF name \in EnvNames /\ environ[name] # None THEN environ[name] ELSE a[name]]

NoEnviron ==
    [new_mobile |-> None, new_itwin |-> None, new_add_on |-> None,
     new_add_on_commit_id |-> None, GH_TOKEN |-> "token"]

(***************************************************************************)
(* The run.  todo holds the calls still to be made, the next one first; a  *)
(* handler replaces itself by the calls of its body.  An exception ends    *)
(* the run at lines 813-817.                                               *)
(***************************************************************************)
\* a call: the function, its arguments, and what is printed right before it
Step(op, a, b) == [op |-> op, a |-> a, b |-> b, say |-> ""]

Say(text, step) == [step EXCEPT !.say = text]

Do(op) == Step(op, "", "")

At(op) == pc = "running" /\ todo # <<>> /\ Head(todo).op = op

Proc(what, dir, rc) == [k |-> "proc", what |-> what, at |-> dir, n |-> rc]

Printed(what, at) == [k |-> "print", what |-> what, at |-> at, n |-> 0]

Rewrite(routine, file, n) == [k |-> "rewrite", what |-> routine, at |-> file, n |-> n]

\* print(error) at line 816
ErrorPrinted(msg) == [k |-> "error", what |-> msg, at |-> "", n |-> 0]

\* the exit statuses a process is run with: success and one failure
ExitCodes == {0, 1}

CalledProcessError(what) == "Command " \o what \o " returned non-zero exit status 1."

\* the body's calls come before the calls that were waiting
Calls(events, body) ==
    /\ log' = log \o events
    /\ todo' = body \o Tail(todo)
    /\ UNCHANGED <<pc, error>>

\* the exception is printed and the script ends as if nothing had happened
Raises_exit_0(events, msg) ==
    /\ log' = log \o events \o <<ErrorPrinted(msg)>>
    /\ error' = msg
    /\ pc' = "exit0"
    /\ todo' = <<>>

\* lines 813-817: the exception leaves every handler, is printed, exit(1)
Raises(events, msg) ==
    /\ log' = log \o events \o <<ErrorPrinted(msg)>>
    /\ error' = msg
    /\ pc' = "exit1"
    /\ todo' = <<>>

\* what a step that only sets attributes of the namespace leaves alone
FrameArgs == UNCHANGED <<argv, dirty, files, repo, nodeOut, latest_versions, last, next>>

\* what a step that only starts processes or prints leaves alone
Frame == UNCHANGED <<argv, args, dirty, files, repo, nodeOut, latest_versions, last, next>>

(***************************************************************************)
(* The repositories: the tags git tag lists, the commits made and pushed,  *)
(* and what the hosting service holds.                                     *)
(***************************************************************************)
InitialTags == {"0.21.9", "0.22.4", "0.22.5", "v0.22.9", "0.22.5-rc1"}

InitialRepo(tags) ==
    [tags |-> tags, commits |-> 0, pushed |-> 0, remote_tags |-> tags,
     releases |-> tags, assets |-> {}]

\* the repositories the runs start from: the version that may be given on the
\* command line is released already, or it is not
Repos == {[d \in Dirs |-> InitialRepo(tags)] : tags \in {InitialTags, InitialTags \ {"0.22.5"}}}

\* the dots of the base version are not escaped: each stands for any character
IsRelease_dots_unescaped(tag) ==
    LET base == mobile_base_version_search_list[Len(mobile_base_version_search_list)]
    IN  /\ Len(tag) > Len(base)
        /\ \A i \in 1..Len(base) : CharAt(base, i) = "." \/ CharAt(tag, i) = CharAt(base, i)
        /\ AllDigits(SubSeq(tag, Len(base) + 1, Len(tag)))

\* line 607: re.search of ^ + base + ([0-9]+)$ in a tag; the entries of
\* mobile_base_version_search_list escape their dots (0\.22\.), so the base
\* version is matched as the text written here
IsRelease(tag) ==
    LET base == mobile_base_version_search_list[Len(mobile_base_version_search_list)]
    IN  HasPrefix(tag, base) /\ AllDigits(SubSeq(tag, Len(base) + 1, Len(tag)))

Patch(tag) ==
    LET base == mobile_base_version_search_list[Len(mobile_base_version_search_list)]
    IN  int(SubSeq(tag, Len(base) + 1, Len(tag)))

get_last_release(tags) ==
    LET patches == {Patch(tag) : tag \in {t \in tags : IsRelease(t)}} \cup {0}
        last_patch == CHOOSE n \in patches : \A m \in patches : m <= n
    IN  IF last_patch > 0 THEN mobile_base_version \o str(last_patch)
        ELSE mobile_base_version \o "0"

\* lines 712-719: the match of ^v18\.([0-9]+)\. and the comparison with 16
RECURSIVE DigitRun(_)
DigitRun(s) ==
    IF Len(s) > 0 /\ IsDigit(CharAt(s, 1))
    THEN CharAt(s, 1) \o DigitRun(SubSeq(s, 2, Len(s))) ELSE ""

NodeMinor(results) ==
    LET run == DigitRun(SubSeq(results, 5, Len(results)))
    IN  IF /\ HasPrefix(results, "v18.")
           /\ Len(run) > 0
           /\ Len(results) >= 5 + Len(run)
           /\ CharAt(results, 5 + Len(run)) = "."
        THEN run ELSE ""

NodeVersionOk_any_minor(results) == NodeMinor(results) # ""

NodeVersionOk(results) == NodeMinor(results) # "" /\ int(NodeMinor(results)) >= 16

\* what node --version may print
NodeOutputs ==
    {"v18.16.0", "v18.100.2", "v18.15.9", "v18.9.1", "v18.16", "v18..1", "v16.20.0",
     "v20.18.0", "18.16.0", "v180.16.0", ""}

(***************************************************************************)
(* The start of a run: a command line, an environment, and a checkout of   *)
(* the five repositories that is either as shipped with any of them        *)
(* holding uncommitted differences, or clean with one file unusual.        *)
(***************************************************************************)
Clean == [d \in Dirs |-> FALSE]

Checkouts ==
    {[dirty |-> d, files |-> ShippedFiles] : d \in [Dirs -> BOOLEAN]}
    \cup {[dirty |-> Clean, files |-> x] : x \in Disks}

Pending == [ok |-> FALSE, v |-> "", err |-> "<not called>"]

Init ==
    /\ pc = "start"
    /\ \E l \in Distinct(CommandLines) : argv = [line |-> l, environ |-> NoEnviron]
    /\ \E c \in Checkouts : dirty = c.dirty /\ files = c.files
    /\ args = NoAttributes
    /\ todo = <<>>
    /\ log = <<>>
    /\ error = ""
    /\ repo \in Repos
    /\ nodeOut = ""
    /\ latest_versions = [key \in {} |-> ""]
    /\ last = ""
    /\ next = Pending

\* lines 802-812
main ==
    /\ pc = "start"
    /\ args' = process_environment(
                   parse_args(argv.line.cmd, argv.line.given, argv.line.force,
                              argv.line.print),
                   argv.environ)
    /\ pc' = "running"
    /\ LET set == SelectSeq(EnvOrder, LAMBDA name : argv.environ[name] # None)
           said == [i \in 1..Len(set) |-> Printed("Using version from env: ", set[i])]
       IN  IF argv.line.cmd # ""
           THEN /\ todo' = <<Do("check_node_version"), Do(argv.line.cmd \o "_command")>>
                /\ log' = log \o said
           ELSE /\ todo' = <<>>
                /\ log' = log \o said \o <<Printed("usage: newVersion.py", "")>>
    /\ UNCHANGED <<argv, error, dirty, files, repo, nodeOut, latest_versions, last, next>>

\* the end of the script after line 812
exit ==
    /\ pc = "running"
    /\ todo = <<>>
    /\ pc' = "exit0"
    /\ UNCHANGED <<argv, args, todo, log, error, dirty, files, repo, nodeOut,
                   latest_versions, last, next>>

\* lines 712-719
check_node_version ==
    /\ At("check_node_version")
    /\ \E rc \in ExitCodes, results \in NodeOutputs :
        LET events == <<Printed("Verifying that node version is 18.x, with minimum of 18.16.", ""),
                        Proc("node --version", "", rc)>>
        IN  /\ nodeOut' = IF rc = 0 THEN results ELSE ""
            /\ IF rc # 0 THEN Raises(events, CalledProcessError("node --version"))
               ELSE IF ~NodeVersionOk(results)
               THEN Raises(events, "Error: Node 18.x required, with minimum of 18.16. You have "
                                   \o results \o ".")
               ELSE Calls(events, <<>>)
    /\ UNCHANGED <<argv, args, dirty, files, repo, latest_versions, last, next>>

\* lines 686-691
do_command ==
    /\ At("do_command")
    /\ IF Truthy(args, "strings")
       THEN Calls(<<>>, [i \in 1..Len(relative_dirs) |->
                            Step("call", args.strings, relative_dirs[i])])
       ELSE Calls(<<>>, <<>>)
    /\ Frame

\* subprocess.call: the exit status is returned and, here, dropped (line 691)
Called_raises_on_failure(what, dir) ==
    \E rc \in ExitCodes :
        IF rc # 0 THEN Raises(<<Proc(what, dir, rc)>>, CalledProcessError(what))
        ELSE Calls(<<Proc(what, dir, rc)>>, <<>>)

Called(what, dir) == \E rc \in ExitCodes : Calls(<<Proc(what, dir, rc)>>, <<>>)

call ==
    /\ At("call")
    /\ Called(Head(todo).a, Head(todo).b)
    /\ Frame

(***************************************************************************)
(* Processes started with subprocess.check_call and what they change.      *)
(***************************************************************************)
\* line 474: the push URL needs GH_TOKEN
NeedsRepoUrl == {"git push", "git push tag"}

\* what a process that exited 0 did to the repository it ran in
Effect(what, dir, r, new_mobile) ==
    IF what = "git commit" THEN [r EXCEPT !.commits = @ + 1]
    ELSE IF what = "git push" THEN [r EXCEPT !.pushed = r.commits]
    ELSE IF what = "git tag" THEN [r EXCEPT !.tags = @ \cup {new_mobile}]
    ELSE IF what = "git push tag" THEN [r EXCEPT !.remote_tags = @ \cup {new_mobile}]
    ELSE IF what = "gh release create" THEN [r EXCEPT !.releases = @ \cup {new_mobile}]
    ELSE IF HasPrefix(what, "gh release upload ")
    THEN [r EXCEPT !.assets = @ \cup {SubSeq(what, 19, Len(what))}]
    ELSE r

\* git refuses to create a tag that exists
MayExit(what, dir) ==
    IF what = "git tag" /\ args.new_mobile \in repo[RepoOf(dir)].tags
    THEN ExitCodes \ {0} ELSE ExitCodes

\* the exit status is not looked at
check_call_unchecked(what, dir) ==
    \E rc \in MayExit(what, dir) :
        /\ Calls(<<Proc(what, dir, rc)>>, <<>>)
        /\ UNCHANGED <<repo, dirty>>

\* subprocess.check_call(what, cwd=dir)
check_call(what, dir) ==
    LET said == IF Head(todo).say = "" THEN <<>> ELSE <<Printed(Head(todo).say, dir)>> IN
    IF what \in NeedsRepoUrl /\ argv.environ.GH_TOKEN = None
    THEN /\ Raises(said, "TypeError: can only concatenate str (not NoneType) to str")
         /\ UNCHANGED <<repo, dirty>>
    ELSE \E rc \in MayExit(what, dir) :
            IF rc # 0
            THEN /\ Raises(said \o <<Proc(what, dir, rc)>>, CalledProcessError(what))
                 /\ UNCHANGED <<repo, dirty>>
            ELSE /\ Calls(said \o <<Proc(what, dir, rc)>>, <<>>)
                 /\ repo' = IF dir = "" THEN repo
                            ELSE [repo EXCEPT ![RepoOf(dir)] =
                                     Effect(what, dir, @, args.new_mobile)]
                 /\ dirty' = IF what = "git commit"
                             THEN [dirty EXCEPT ![RepoOf(dir)] = FALSE] ELSE dirty

subprocess_check_call ==
    /\ At("check_call")
    /\ check_call(Head(todo).a, Head(todo).b)
    /\ UNCHANGED <<argv, args, files, nodeOut, latest_versions, last, next>>

CheckCall(what, dir) == Step("check_call", what, dir)

\* lines 383-385
npm_install_dir(dir) ==
    <<Say("Performing npm install in dir: ", CheckCall("npm install --force", dir))>>

\* lines 373-381
npm_build_dir(dir, relativeDeps) ==
    (IF relativeDeps
     THEN <<Say("Performing npm run build in dir: ",
                CheckCall("rm -rf node_modules/@itwin/mobile-sdk-core", dir)),
            CheckCall("npx relative-deps", dir),
            CheckCall("npm run build", dir)>>
     ELSE <<Say("Performing npm run build in dir: ", CheckCall("npm run build", dir))>>)

\* lines 526-530
show_node_version ==
    <<Say("Using node version:", CheckCall("node --version", "")),
      Say("Using npm version:", CheckCall("npm --version", ""))>>

\* lines 476-479
push_dir(dir) == <<Say("Pushing in dir: ", CheckCall("git push", dir))>>

\* lines 505-507
release_upload(dir, filename) ==
    <<Say("Uploading in dir: ", CheckCall("gh release upload " \o filename, dir))>>

\* lines 407-408 and 419-426: every directory is asked, then the exception
RECURSIVE DiffProbes_stop_at_first(_)
DiffProbes_stop_at_first(ds) ==
    IF ds = <<>> THEN <<>>
    ELSE IF dirty[Head(ds)]
    THEN <<Proc("git diff --quiet", Head(ds), 1), Printed("Diffs in dir: ", Head(ds))>>
    ELSE <<Proc("git diff --quiet", Head(ds), 0)>> \o DiffProbes_stop_at_first(Tail(ds))

RECURSIVE DiffProbes(_)
DiffProbes(ds) ==
    IF ds = <<>> THEN <<>>
    ELSE (IF dirty[Head(ds)]
          THEN <<Proc("git diff --quiet", Head(ds), 1), Printed("Diffs in dir: ", Head(ds))>>
          ELSE <<Proc("git diff --quiet", Head(ds), 0)>>)
         \o DiffProbes(Tail(ds))

ensure_no_dirs_have_diffs ==
    /\ At("ensure_no_dirs_have_diffs")
    /\ IF \E d \in Dirs : dirty[d]
       THEN Raises(DiffProbes(relative_dirs), "Error: Diffs are not allowed")
       ELSE Calls(DiffProbes(relative_dirs), <<>>)
    /\ Frame

\* lines 428-435
commit_dir ==
    /\ At("commit_dir")
    /\ LET dir == Head(todo).a
           events == <<Printed("Committing in dir: ", dir),
                       Proc("git diff --quiet", dir, IF dirty[dir] THEN 1 ELSE 0)>>
       IN  IF dirty[dir]
           THEN Calls(events, <<CheckCall("git checkout " \o git_branch, dir),
                                CheckCall("git add .", dir),
                                CheckCall("git commit", dir)>>)
           ELSE Calls(events \o <<Printed("Nothing to commit.", dir)>>, <<>>)
    /\ Frame

(***************************************************************************)
(* Finding the versions (lines 465-471, 601-684).                          *)
(***************************************************************************)
\* what npm view answers for package@prefix (lines 633-638)
Latest(key) ==
    IF key = "@itwin/core-common@4.4" THEN "4.4.3"
    ELSE IF key = "@itwin/itwins-client@1" THEN "1.2.0"
    ELSE "4.10.1"

Cached(versions, keys) ==
    [key \in DOMAIN versions \cup keys |->
        IF key \in DOMAIN versions THEN versions[key] ELSE Latest(key)]

\* lines 629-640 for a sequence of keys, the first good of the uncached ones
\* answered and the next one, if any is left to fail, failing
ViewEvents(keys, good) ==
    [i \in 1..(IF good < Len(keys) THEN good + 1 ELSE good) |->
        Proc("npm view " \o keys[i], "", IF i <= good THEN 0 ELSE 1)]

Uncached(keys) ==
    LET RECURSIVE pick(_)
        pick(ks) == IF ks = <<>> THEN <<>>
                    ELSE (IF Head(ks) \in DOMAIN latest_versions THEN <<>> ELSE <<Head(ks)>>)
                         \o pick(Tail(ks))
    IN  pick(keys)

\* get_latest_version for each key in turn; Then(values) says what follows when
\* every call returned
GetLatestVersions(keys, Then(_)) ==
    LET ask == Uncached(keys) IN
    \E good \in 0..Len(ask) :
        /\ latest_versions' = Cached(latest_versions, {ask[i] : i \in 1..good})
        /\ IF good < Len(ask)
           THEN /\ Raises(ViewEvents(ask, good), CalledProcessError("npm view " \o ask[good + 1]))
                /\ UNCHANGED args
           ELSE Then(latest_versions')

ItwinKey == "@itwin/core-common@4.4"

NonCoreKeys ==
    [i \in 1..Len(NonCoreGroups) |->
        VersionKey(NonCoreGroups[i].packages[1], NonCoreGroups[i].prefix)]

\* lines 188-196
get_itwin_non_core_tuples_step ==
    /\ At("get_itwin_non_core_tuples")
    /\ LET Then(versions) == Calls(ViewEvents(Uncached(NonCoreKeys), Len(Uncached(NonCoreKeys))),
                                   <<>>) /\ UNCHANGED args
       IN  GetLatestVersions(NonCoreKeys, Then)
    /\ UNCHANGED <<argv, dirty, files, repo, nodeOut, last, next>>

\* line 602: git tag in mobile-sdk-ios, and what follows its output
GitTag(Then(_)) ==
    \E rc \in ExitCodes :
        IF rc # 0
        THEN /\ Raises(<<Proc("git tag --list", sdk_ios, rc)>>, CalledProcessError("git tag --list"))
             /\ UNCHANGED args
        ELSE Then(<<Proc("git tag --list", sdk_ios, rc)>>)

\* line 336
change_current_mobile ==
    /\ At("get_last_release")
    /\ LET Then(events) ==
               /\ args' = [args EXCEPT !.current_mobile = get_last_release(repo[sdk_ios].tags)]
               /\ Calls(events, <<>>)
       IN  GitTag(Then)
    /\ UNCHANGED <<argv, dirty, files, repo, nodeOut, latest_versions, last, next>>

\* lines 465-471
Populated_always_next(a, current_mobile, current) ==
    [a EXCEPT !.current_mobile = current_mobile,
              !.new_mobile = get_next_release(current_mobile).v]

Populated(a, current_mobile, current) ==
    [a EXCEPT !.current_mobile = current_mobile,
              !.new_mobile = IF Truthy(a, "new_mobile") THEN @
                             ELSE IF current THEN current_mobile
                             ELSE get_next_release(current_mobile).v]

populate_mobile_versions ==
    /\ At("populate_mobile_versions")
    /\ LET Then(events) ==
               /\ args' = Populated(args, get_last_release(repo[sdk_ios].tags),
                                    Head(todo).a = "True")
               /\ Calls(events, <<>>)
       IN  GitTag(Then)
    /\ UNCHANGED <<argv, dirty, files, repo, nodeOut, latest_versions, last, next>>

\* lines 667-671
get_versions_itwin ==
    /\ At("get_versions_itwin")
    /\ IF Truthy(args, "new_itwin")
       THEN /\ Calls(<<Printed("New release: ", ""), Printed("iTwin version: ", "")>>, <<>>)
            /\ UNCHANGED <<args, latest_versions>>
       ELSE LET Then(versions) ==
                    /\ args' = [args EXCEPT !.new_itwin = versions[ItwinKey]]
                    /\ Calls(<<Printed("New release: ", "")>>
                             \o ViewEvents(Uncached(<<ItwinKey>>), Len(Uncached(<<ItwinKey>>)))
                             \o <<Printed("iTwin version: ", "")>>, <<>>)
            IN  GetLatestVersions(<<ItwinKey>>, Then)
    /\ UNCHANGED <<argv, dirty, files, repo, nodeOut, last, next>>

\* lines 642-646: the version npm show names, or None
NativeVersions == {"4.4.12", None}

\* lines 673-674
get_versions_add_on ==
    /\ At("get_versions_add_on")
    /\ IF Truthy(args, "new_add_on")
       THEN Calls(<<>>, <<>>) /\ UNCHANGED args
       ELSE \E rc \in ExitCodes, found \in NativeVersions :
                IF rc # 0
                THEN /\ Raises(<<Proc("npm show", "", rc)>>, CalledProcessError("npm show"))
                     /\ UNCHANGED args
                ELSE /\ Calls(<<Proc("npm show", "", rc)>>, <<>>)
                     /\ args' = [args EXCEPT !.new_add_on = found]
    /\ FrameArgs

\* lines 648-662: the commit git ls-remote names, or None when it names none
RemoteCommitIds == {"5e7a", None}

\* lines 676-684
get_versions_commit_id ==
    /\ At("get_versions_commit_id")
    /\ IF ~Truthy(args, "new_add_on")
       THEN Raises(<<>>, "Error: Unable to determine all versions.") /\ UNCHANGED args
       ELSE IF Truthy(args, "new_add_on_commit_id")
       THEN /\ Calls(<<Printed("mobile-native-ios version: ", ""),
                       Printed("mobile-native-ios revision: ", "")>>, <<>>)
            /\ UNCHANGED args
       ELSE \E rc \in ExitCodes, found \in RemoteCommitIds :
                LET events == <<Printed("mobile-native-ios version: ", ""),
                                Proc("git ls-remote --tags", "", rc)>>
                IN  IF rc # 0
                    THEN /\ Raises(events, CalledProcessError("git ls-remote --tags"))
                         /\ UNCHANGED args
                    ELSE /\ args' = [args EXCEPT !.new_add_on_commit_id = found]
                         /\ IF found = None
                            THEN Raises(events, "TypeError: can only concatenate str (not NoneType) to str")
                            ELSE Calls(events \o <<Printed("mobile-native-ios revision: ", "")>>,
                                       <<>>)
    /\ FrameArgs

\* lines 664-684: the calls of get_versions
get_versions(current) ==
    <<Step("populate_mobile_versions", Bool(current), ""), Do("get_versions_itwin"),
      Do("get_versions_add_on"), Do("get_versions_commit_id")>>

(***************************************************************************)
(* The rewriting steps.  A step leaves the routine's lines in the file     *)
(* before it raises; the repository has uncommitted differences once a     *)
(* file of it changed.                                                     *)
(***************************************************************************)
Rewrites(routine, file, r) ==
    LET events == <<Printed("Processing: ", file), Rewrite(routine, file, r.n)>> IN
    /\ files' = [files EXCEPT ![file].lines = r.lines]
    /\ dirty' = [dirty EXCEPT ![RepoOf(file)] = @ \/ r.lines # files[file].lines]
    /\ IF r.err # "" THEN Raises(events, r.err) ELSE Calls(events, <<>>)
    /\ UNCHANGED <<argv, args, repo, nodeOut, latest_versions, last, next>>

modify_package_swift_step ==
    /\ At("modify_package_swift")
    /\ Rewrites("modify_package_swift", Head(todo).a,
                modify_package_swift(args, files[Head(todo).a]))

modify_package_resolved_step ==
    /\ At("modify_package_resolved")
    /\ Rewrites("modify_package_resolved", Head(todo).a,
                modify_package_resolved(args, files[Head(todo).a]))

modify_podspec_step ==
    /\ At("modify_podspec")
    /\ Rewrites("modify_podspec", Head(todo).a, modify_podspec(args, files[Head(todo).a]))

modify_readme_md_step ==
    /\ At("modify_readme_md")
    /\ Rewrites("modify_readme_md", Readme(Head(todo).a),
                modify_readme_md(args, Head(todo).a, files[Readme(Head(todo).a)]))

modify_build_gradle_step ==
    /\ At("modify_build_gradle")
    /\ Rewrites("modify_build_gradle", Head(todo).a,
                modify_build_gradle(args, files[Head(todo).a]))

modify_sample_build_gradle_step ==
    /\ At("modify_sample_build_gradle")
    /\ Rewrites("modify_sample_build_gradle", Head(todo).a,
                modify_sample_build_gradle(args, files[Head(todo).a]))

modify_project_pbxproj_step ==
    /\ At("modify_project_pbxproj")
    /\ Rewrites("modify_project_pbxproj", Head(todo).a,
                modify_project_pbxproj(args, files[Head(todo).a]))

\* lines 198-202: nothing happens without a package.json
modify_package_json_step ==
    /\ At("modify_package_json")
    /\ IF files[PackageJson(Head(todo).a)].exists
       THEN Calls(<<Printed("Processing: ", PackageJson(Head(todo).a))>>,
                  <<Do("get_itwin_non_core_tuples"),
                    Step("package_json_replace_all", Head(todo).a, "")>>)
       ELSE Calls(<<>>, <<>>)
    /\ Frame

\* lines 205-218
package_json_replace_all ==
    /\ At("package_json_replace_all")
    /\ LET file == PackageJson(Head(todo).a)
           r == modify_package_json(args, files[file], latest_versions)
           events == <<Rewrite("modify_package_json", file, r.n)>>
       IN  /\ files' = [files EXCEPT ![file].lines = r.lines]
           /\ dirty' = [dirty EXCEPT ![RepoOf(file)] = @ \/ r.lines # files[file].lines]
           /\ IF r.err # "" THEN Raises(events, r.err) ELSE Calls(events, <<>>)
    /\ UNCHANGED <<argv, args, repo, nodeOut, latest_versions, last, next>>

\* lines 446-448
modify_samples_project_pbxproj ==
    /\ At("modify_samples_project_pbxproj")
    /\ Calls(<<>>, [i \in 1..Len(PbxprojFiles) |->
                       Step("modify_project_pbxproj", PbxprojFiles[i], "")])
    /\ Frame

\* lines 459-463
modify_samples_build_gradle ==
    /\ At("modify_samples_build_gradle")
    /\ Calls(<<>>, [i \in 1..Len(SampleGradleFiles) |->
                       Step("modify_sample_build_gradle", SampleGradleFiles[i], "")])
    /\ Frame

\* lines 655-658: the commit git show-ref names for the tag
CommitOf(tag) == "c0ffee"

\* lines 453-457
modify_samples_package_resolved ==
    /\ At("modify_samples_package_resolved")
    /\ LET body == [i \in 1..Len(SampleResolvedFiles) |->
                       Step("modify_package_resolved", SampleResolvedFiles[i], "")]
           tagged == args.new_mobile \in repo[sdk_ios].tags
       IN  IF ~hasattr(args, "new_commit_id") /\ ~skip_commit_id(args)
           THEN \E rc \in (IF tagged THEN ExitCodes ELSE ExitCodes \ {0}) :
                   IF rc # 0
                   THEN /\ Raises(<<Proc("git show-ref --tags", sdk_ios, rc)>>,
                                  CalledProcessError("git show-ref --tags"))
                        /\ UNCHANGED args
                   ELSE /\ Calls(<<Proc("git show-ref --tags", sdk_ios, rc)>>, body)
                        /\ args' = [args EXCEPT !.new_commit_id = CommitOf(args.new_mobile)]
           ELSE Calls(<<>>, body) /\ UNCHANGED args
    /\ FrameArgs

(***************************************************************************)
(* The handlers (lines 332-405, 509-577): each replaces itself by the      *)
(* calls of its body, in the order the source makes them.                  *)
(***************************************************************************)
\* the check is made whatever --force says
UnlessForced_always(a) == <<Do("ensure_no_dirs_have_diffs")>>

\* lines 333-334, 347-348, 364-365
UnlessForced(a) ==
    IF a.force = "True" THEN <<>> ELSE <<Do("ensure_no_dirs_have_diffs")>>

ChangeRewrites_json_first ==
    <<Step("modify_package_json", sdk_core, ""),
      Step("modify_package_swift", PackageSwift, ""),
      Step("modify_package_resolved", PackageResolved, ""),
      Step("modify_podspec", Podspec, ""),
      Step("modify_readme_md", sdk_ios, ""),
      Step("modify_readme_md", sdk_android, ""),
      Step("modify_build_gradle", BuildGradle, "")>>

\* lines 337-344
ChangeRewrites ==
    <<Step("modify_package_swift", PackageSwift, ""),
      Step("modify_package_resolved", PackageResolved, ""),
      Step("modify_podspec", Podspec, ""),
      Step("modify_readme_md", sdk_ios, ""),
      Step("modify_readme_md", sdk_android, ""),
      Step("modify_build_gradle", BuildGradle, ""),
      Step("modify_package_json", sdk_core, "")>>

\* lines 332-344
change_command ==
    /\ At("change_command")
    /\ IF ~hasattr(args, "force")
       THEN Raises(<<>>, "AttributeError: Namespace object has no attribute force")
       ELSE Calls(<<>>, UnlessForced(args)
                        \o (IF Truthy(args, "current_mobile") THEN <<>>
                            ELSE <<Do("get_last_release")>>)
                        \o ChangeRewrites)
    /\ Frame

\* lines 346-351
bump_command ==
    /\ At("bump_command")
    /\ Calls(<<>>, UnlessForced(args) \o get_versions(FALSE) \o <<Do("change_command")>>
                   \o npm_install_dir(sdk_core))
    /\ Frame

\* lines 353-361
changeitwin_command ==
    /\ At("changeitwin_command")
    /\ args' = [args EXCEPT !.skip_commit_id = "True"]
    /\ Calls(<<>>, <<Do("change_command")>> \o npm_install_dir(sdk_core)
                   \o <<Do("changeui_command")>> \o npm_install_dir(ui_react)
                   \o <<Do("changesamples_command")>> \o npm_install_dir(react_app_dir)
                   \o npm_install_dir(token_server_dir))
    /\ FrameArgs

\* lines 363-367
bumpitwin_command ==
    /\ At("bumpitwin_command")
    /\ Calls(<<>>, UnlessForced(args) \o get_versions(TRUE) \o <<Do("changeitwin_command")>>)
    /\ Frame

\* lines 369-371
changeui_command ==
    /\ At("changeui_command")
    /\ args' = [args EXCEPT !.current_mobile = args.new_mobile]
    /\ Calls(<<>>, <<Step("modify_package_json", ui_react, "")>>)
    /\ FrameArgs

\* lines 387-390
bumpui_command ==
    /\ At("bumpui_command")
    /\ Calls(<<>>, get_versions(FALSE) \o <<Do("changeui_command")>>
                   \o npm_install_dir(ui_react))
    /\ Frame

\* lines 392-399
changesamples_command ==
    /\ At("changesamples_command")
    /\ args' = [args EXCEPT !.current_mobile = args.new_mobile]
    /\ Calls(<<>>, <<Step("modify_package_json", react_app_dir, ""),
                     Step("modify_package_json", token_server_dir, ""),
                     Do("modify_samples_project_pbxproj"),
                     Do("modify_samples_build_gradle"),
                     Step("modify_sample_build_gradle", SharedGradleFile, ""),
                     Do("modify_samples_package_resolved")>>)
    /\ FrameArgs

\* lines 401-405
bumpsamples_command ==
    /\ At("bumpsamples_command")
    /\ Calls(<<>>, get_versions(FALSE) \o <<Do("changesamples_command")>>
                   \o npm_install_dir(react_app_dir)
                   \o npm_install_dir(token_server_dir))
    /\ Frame

\* lines 509-513
push_command ==
    /\ At("push_command")
    /\ Calls(<<>>, <<Step("populate_mobile_versions", Head(todo).b, ""),
                     Step("commit_dir", Head(todo).a, "")>> \o push_dir(Head(todo).a))
    /\ Frame

push1_command_android_first ==
    <<Step("push_command", sdk_android, "False"), Step("push_command", sdk_ios, "False"),
      Step("push_command", sdk_core, "False")>>

\* lines 515-518
push1_command ==
    <<Step("push_command", sdk_ios, "False"), Step("push_command", sdk_android, "False"),
      Step("push_command", sdk_core, "False")>>

\* lines 520-521
push2_command == <<Step("push_command", ui_react, "True")>>

\* lines 523-524
push3_command == <<Step("push_command", samples, "True")>>

release_calls_release_first(dir) ==
    <<CheckCall("git checkout " \o git_branch, dir),
      CheckCall("git pull", dir),
      CheckCall("gh release create", dir),
      CheckCall("git tag", dir),
      CheckCall("git push tag", dir),
      CheckCall("git pull", dir)>>
    \o release_upload(dir, "itwin-mobile-sdk.podspec")
    \o release_upload(dir, "AsyncLocationKit.podspec")

\* lines 489-503: the processes of release_dir
release_calls(dir) ==
    <<CheckCall("git checkout " \o git_branch, dir),
      CheckCall("git pull", dir),
      CheckCall("git tag", dir),
      CheckCall("git push tag", dir),
      CheckCall("gh release create", dir),
      CheckCall("git pull", dir)>>
    \o (IF dir = sdk_ios
        THEN release_upload(dir, "itwin-mobile-sdk.podspec")
             \o release_upload(dir, "AsyncLocationKit.podspec")
        ELSE <<>>)

\* lines 481-503
release_dir ==
    /\ At("release_dir")
    /\ LET dir == Head(todo).a IN
       /\ args' = [args EXCEPT !.title = IF Truthy(args, "title") THEN @
                                         ELSE "Release " \o args.new_mobile]
       /\ Calls(<<Printed("Releasing in dir: ", dir)>>,
                (IF Truthy(args, "notes") THEN <<>> ELSE <<Do("release_notes")>>)
                \o release_calls(dir))
    /\ FrameArgs

\* lines 486-488
release_notes ==
    /\ At("release_notes")
    /\ LET Then(versions) ==
               /\ args' = [args EXCEPT !.notes = "Release " \o args.new_mobile
                                                 \o " on iTwin " \o versions[ItwinKey]]
               /\ Calls(ViewEvents(Uncached(<<ItwinKey>>), Len(Uncached(<<ItwinKey>>))), <<>>)
       IN  GetLatestVersions(<<ItwinKey>>, Then)
    /\ UNCHANGED <<argv, dirty, files, repo, nodeOut, last, next>>

\* lines 532-535
stage1_command ==
    /\ At("stage1_command")
    /\ Calls(<<>>, show_node_version \o <<Do("bump_command")>> \o push1_command)
    /\ Frame

\* lines 537-540
stage2_command ==
    /\ At("stage2_command")
    /\ Calls(<<>>, show_node_version \o <<Do("bumpui_command")>> \o push2_command)
    /\ Frame

Stage3_samples_first ==
    <<Step("populate_mobile_versions", "False", ""), Do("bumpsamples_command")>>
    \o push3_command
    \o <<Step("release_dir", sdk_ios, ""), Step("release_dir", sdk_android, ""),
         Step("release_dir", sdk_core, ""), Step("release_dir", ui_react, ""),
         Step("release_dir", samples, "")>>

\* lines 544-553
Stage3 ==
    <<Step("populate_mobile_versions", "False", ""),
      Step("release_dir", sdk_ios, ""), Step("release_dir", sdk_android, ""),
      Step("release_dir", sdk_core, ""), Step("release_dir", ui_react, ""),
      Do("bumpsamples_command")>>
    \o push3_command
    \o <<Step("release_dir", samples, "")>>

\* lines 542-553
stage3_command ==
    /\ At("stage3_command")
    /\ Calls(<<>>, show_node_version \o Stage3)
    /\ Frame

\* lines 555-562
changesamplestest_command ==
    /\ At("changesamplestest_command")
    /\ args' = [args EXCEPT !.new_commit_id = "new_commit_id",
                            !.new_add_on_commit_id = "new_add_on_commit_id",
                            !.new_mobile = "new_mobile",
                            !.new_add_on = "new_add_on"]
    /\ Calls(<<>>, <<Do("modify_samples_package_resolved"),
                     Do("modify_samples_project_pbxproj"),
                     Do("modify_samples_build_gradle")>>)
    /\ FrameArgs

\* lines 564-577
test_command ==
    /\ At("test_command")
    /\ Calls(<<>>, show_node_version \o get_versions(TRUE)
                   \o <<Do("change_command"), Do("changeui_command"),
                        Do("changesamples_command")>>
                   \o npm_install_dir(sdk_core) \o npm_install_dir(ui_react)
                   \o npm_install_dir(react_app_dir)
                   \o npm_install_dir(token_server_dir)
                   \o npm_build_dir(sdk_core, FALSE) \o npm_build_dir(ui_react, TRUE)
                   \o npm_build_dir(react_app_dir, TRUE)
                   \o npm_build_dir(token_server_dir, FALSE))
    /\ Frame

\* lines 579-587
checkversions_command ==
    /\ At("checkversions_command")
    /\ Calls(<<>>, get_versions(FALSE) \o show_node_version
                   \o <<Do("get_itwin_non_core_tuples")>>)
    /\ Frame

Next ==
    \/ main
    \/ exit
    \/ check_node_version
    \/ do_command
    \/ call
    \/ subprocess_check_call
    \/ ensure_no_dirs_have_diffs
    \/ commit_dir
    \/ get_itwin_non_core_tuples_step
    \/ change_current_mobile
    \/ populate_mobile_versions
    \/ get_versions_itwin
    \/ get_versions_add_on
    \/ get_versions_commit_id
    \/ modify_package_swift_step
    \/ modify_package_resolved_step
    \/ modify_podspec_step
    \/ modify_readme_md_step
    \/ modify_build_gradle_step
    \/ modify_sample_build_gradle_step
    \/ modify_project_pbxproj_step
    \/ modify_package_json_step
    \/ package_json_replace_all
    \/ modify_samples_project_pbxproj
    \/ modify_samples_build_gradle
    \/ modify_samples_package_resolved
    \/ change_command
    \/ bump_command
    \/ changeitwin_command
    \/ bumpitwin_command
    \/ changeui_command
    \/ bumpui_command
    \/ changesamples_command
    \/ bumpsamples_command
    \/ push_command
    \/ release_dir
    \/ release_notes
    \/ stage1_command
    \/ stage2_command
    \/ stage3_command
    \/ changesamplestest_command
    \/ test_command
    \/ checkversions_command

Spec == Init /\ [][Next]_vars

(***************************************************************************)
(* get_next_release on its own: every string of up to MaxLen characters of *)
(* Alphabet is handed to it.                                               *)
(***************************************************************************)
MaxLen == 5

Alphabet == {"0", "1", "9", ".", "-", "a"}

RECURSIVE Strings(_)
Strings(n) ==
    IF n = 0 THEN {""}
    ELSE LET shorter == Strings(n - 1) IN shorter \cup {s \o c : s \in shorter, c \in Alphabet}

InitNextRelease ==
    /\ pc = "get_next_release"
    /\ last \in Strings(MaxLen)
    /\ next = Pending
    /\ argv = [line |-> [cmd |-> "", given |-> FALSE, force |-> FALSE, print |-> FALSE],
               environ |-> NoEnviron]
    /\ args = NoAttributes
    /\ todo = <<>>
    /\ log = <<>>
    /\ error = ""
    /\ dirty = Clean
    /\ files = ShippedFiles
    /\ repo = [d \in Dirs |-> InitialRepo(InitialTags)]
    /\ nodeOut = ""
    /\ latest_versions = [key \in {} |-> ""]

call_get_next_release ==
    /\ pc = "get_next_release"
    /\ next' = get_next_release(last)
    /\ pc' = "returned"
    /\ UNCHANGED <<argv, args, todo, log, error, dirty, files, repo, nodeOut,
                   latest_versions, last>>

NextNextRelease == call_get_next_release

SpecNextRelease == InitNextRelease /\ [][NextNextRelease]_vars

\* C1: for a string of exactly three dot-separated components whose third is a
\* non-negative decimal integer, get_next_release returns the same first two
\* components followed by the third plus one; for a string that does not have
\* exactly three components it raises Could not parse last release and
\* returns nothing.
C1_NextRelease ==
    pc = "returned" =>
        LET parts == split(last) IN
        /\ (Len(parts) = 3 /\ AllDigits(parts[3])) =>
               /\ next.ok
               /\ LET out == split(next.v) IN
                      /\ Len(out) = 3
                      /\ out[1] = parts[1]
                      /\ out[2] = parts[2]
                      /\ AllDigits(out[3])
                      /\ int(out[3]) = int(parts[3]) + 1
        /\ Len(parts) # 3 =>
               /\ ~next.ok
               /\ next.v = ""
               /\ HasPrefix(next.err, "Error: Could not parse last release")

\* the release after 1.0.9 is 1.0.10
C1_Witness == pc = "returned" /\ last = "1.0.9" /\ next.ok /\ next.v = "1.0.10"

(***************************************************************************)
(* Properties of the runs (Spec).  A Rewrite event carries the count the   *)
(* routine compared (the count of its last replace_all), or -1 when the    *)
(* routine keeps no count or could not open the file.                      *)
(***************************************************************************)
Events == DOMAIN log

\* the exception that ended the run was raised by the step that logged event i
RaisedAt(i) == i < Len(log) /\ log[i + 1].k = "error"

ExactRoutines ==
    {"modify_package_swift", "modify_podspec", "modify_build_gradle",
     "modify_sample_build_gradle"}

MinimumRoutines == {"modify_readme_md", "modify_package_json"}

UncountedRoutines == {"modify_package_resolved", "modify_project_pbxproj"}

\* the number each routine compares its count with
ExpectedCount(e) ==
    CASE e.what = "modify_package_swift" -> 1
      [] e.what = "modify_podspec" -> 2
      [] e.what = "modify_build_gradle" -> 4
      [] e.what = "modify_sample_build_gradle" -> 1
      [] e.what = "modify_package_json" -> 2
      [] e.what = "modify_readme_md" -> IF e.at = Readme(sdk_ios) THEN 5 ELSE 1

\* C2 as stated: every rewriting routine raises whenever the number of
\* substitutions it made differs from the number it expects, so that no run
\* goes on, or ends successfully, after a rewrite that made fewer or more
\* substitutions than expected.
C2_AsStated ==
    \A i \in Events :
        (/\ log[i].k = "rewrite"
         /\ log[i].what \in ExactRoutines \cup MinimumRoutines
         /\ log[i].n # ExpectedCount(log[i]))
        => RaisedAt(i) /\ pc = "exit1"

\* C2 amended: modify_package_swift, modify_podspec, modify_build_gradle and
\* modify_sample_build_gradle raise exactly when their count differs from 1, 2,
\* 4 and 1; modify_readme_md and modify_package_json raise exactly when their
\* count is below the minimum (1, and 5 for the mobile-sdk-ios README; 2), so a
\* run goes on after more substitutions than that; modify_package_resolved and
\* modify_project_pbxproj keep no count and never raise on account of one; and
\* whenever a routine raises, the run ends with exit code 1.
C2_CountChecks ==
    \A i \in Events :
        log[i].k = "rewrite" =>
            /\ log[i].what \in ExactRoutines =>
                   (RaisedAt(i) <=> log[i].n # ExpectedCount(log[i]))
            /\ log[i].what \in MinimumRoutines =>
                   (RaisedAt(i) <=> log[i].n < ExpectedCount(log[i]))
            /\ log[i].what \in UncountedRoutines => ~RaisedAt(i) /\ log[i].n = -1
            /\ RaisedAt(i) => pc = "exit1" /\ i + 1 = Len(log)

\* a run ended successfully after a README took two substitutions where one
\* is the minimum, and another run was ended by a package.json that took one
C2_Witness ==
    /\ pc = "exit0"
    /\ \E i \in Events :
           /\ log[i].k = "rewrite"
           /\ log[i].what = "modify_readme_md"
           /\ log[i].at = Readme(sdk_android)
           /\ log[i].n = 2

\* a run was ended by a podspec that took three substitutions
C2_WitnessRaise ==
    /\ pc = "exit1"
    /\ \E i \in Events :
           /\ log[i].k = "rewrite"
           /\ log[i].what = "modify_podspec"
           /\ log[i].n = 3
           /\ RaisedAt(i)

\* event i is the run of the command line given to do in one directory
DoCommandAt(i) == argv.line.cmd = "do" /\ log[i].k = "proc" /\ log[i].at \in Dirs

DiffProbeAt(i) == log[i].k = "proc" /\ log[i].what = "git diff --quiet"

\* C3 as stated: every external command that exits with a non-zero status,
\* the command given to do included, raises an error that ends the run; only
\* the git diff --quiet probe may exit non-zero without that.
C3_AsStated ==
    \A i \in Events :
        (log[i].k = "proc" /\ log[i].n # 0 /\ ~DiffProbeAt(i))
        => RaisedAt(i) /\ pc = "exit1"

\* C3 amended: every external command that exits with a non-zero status raises
\* an error that ends the run with exit code 1 before anything else is
\* started, except the git diff --quiet probe, whose status is an answer, and
\* the command given to do, whose status is dropped: neither of these two
\* raises.
C3_NonZeroExitRaises ==
    \A i \in Events :
        (log[i].k = "proc" /\ log[i].n # 0) =>
            IF DiffProbeAt(i) \/ DoCommandAt(i)
            THEN ~RaisedAt(i)
            ELSE /\ RaisedAt(i)
                 /\ i + 1 = Len(log)
                 /\ pc = "exit1"
                 /\ error = CalledProcessError(log[i].what)

\* npm install failed in a run of stage1 and ended it
C3_Witness ==
    /\ argv.line.cmd = "stage1"
    /\ pc = "exit1"
    /\ Len(log) > 1
    /\ log[Len(log) - 1].k = "proc"
    /\ log[Len(log) - 1].what = "npm install --force"
    /\ log[Len(log) - 1].n # 0

\* C4: when a step raises an error, the error is printed and the run ends with
\* exit code 1 without another step; nothing is retried or rolled back: the
\* step that failed changes no repository and no file but the one it was
\* rewriting, and every file, commit, push, tag and release made before it
\* stays as it was.
C4_NoRecovery ==
    [][/\ pc \notin {"exit0", "exit1"}
       /\ SubSeq(log', 1, Len(log)) = log
       /\ \A i \in 1..Len(log') :
              log'[i].k = "error" =>
                  /\ i = Len(log')
                  /\ pc' = "exit1"
                  /\ error' = log'[i].what
                  /\ todo' = <<>>
                  /\ repo' = repo
                  /\ \A f \in Files :
                         files'[f] # files[f] =>
                             /\ i > 1
                             /\ log'[i - 1].k = "rewrite"
                             /\ log'[i - 1].at = f
       /\ pc' = "exit1" => log' # <<>> /\ log'[Len(log')].k = "error"
       /\ \A d \in Dirs :
              /\ repo[d].tags \subseteq repo'[d].tags
              /\ repo[d].remote_tags \subseteq repo'[d].remote_tags
              /\ repo[d].releases \subseteq repo'[d].releases
              /\ repo[d].assets \subseteq repo'[d].assets
              /\ repo[d].commits <= repo'[d].commits
              /\ repo[d].pushed <= repo'[d].pushed]_vars

\* the mobile-sdk-ios README failed its count after Package.swift had been
\* rewritten: both files hold the new versions when the run has ended
C4_Witness ==
    /\ pc = "exit1"
    /\ error = "Not enough replacements"
    /\ log[Len(log) - 1].k = "rewrite"
    /\ log[Len(log) - 1].at = Readme(sdk_ios)
    /\ files[Readme(sdk_ios)] \notin Found(Readme(sdk_ios))
    /\ files[PackageSwift] \notin Found(PackageSwift)

\* the commands that check for uncommitted differences unless --force is given
DiffCheckedCommands == {"change", "bump", "changeitwin", "bumpitwin", "stage1"}

\* event i is a file rewritten, or an npm install, a commit or a push started
ChangeAt(i) ==
    \/ log[i].k = "rewrite"
    \/ /\ log[i].k = "proc"
       /\ log[i].what \in {"npm install --force", "git add .", "git commit", "git push",
                           "git push tag"}

NothingChangedYet == \A i \in Events : ~ChangeAt(i)

\* the directories probed with git diff --quiet among the first n events
RECURSIVE ProbedDirs(_)
ProbedDirs(n) ==
    IF n = 0 THEN <<>>
    ELSE ProbedDirs(n - 1) \o (IF DiffProbeAt(n) THEN <<log[n].at>> ELSE <<>>)

FirstChange == CHOOSE i \in Events : ChangeAt(i) /\ \A j \in 1..(i - 1) : ~ChangeAt(j)

\* C5: in change, bump, changeitwin, bumpitwin and stage1 without --force, the
\* five directories are all probed for uncommitted differences before any file
\* is rewritten and before any npm install, commit or push; when a directory
\* has differences the run never succeeds, and once the probes were made it
\* has failed with Diffs are not allowed without a rewrite, npm install,
\* commit or push.  With --force nothing is probed before the rewrites.
C5_DiffsNotAllowed ==
    argv.line.cmd \in DiffCheckedCommands =>
        IF argv.line.force
        THEN \A i \in Events : DiffProbeAt(i) => \E j \in 1..(i - 1) : ChangeAt(j)
        ELSE /\ NothingChangedYet =>
                    /\ \A i \in Events :
                           DiffProbeAt(i) => (log[i].n # 0 <=> dirty[log[i].at])
                    /\ (\E d \in Dirs : dirty[d]) =>
                           /\ pc # "exit0"
                           /\ ProbedDirs(Len(log)) # <<>> =>
                                  /\ ProbedDirs(Len(log)) = relative_dirs
                                  /\ pc = "exit1"
                                  /\ error = "Error: Diffs are not allowed"
             /\ ~NothingChangedYet =>
                    /\ ProbedDirs(FirstChange) \in
                           {relative_dirs, relative_dirs \o relative_dirs}
                    /\ \A i \in 1..FirstChange : DiffProbeAt(i) => log[i].n = 0

\* stage1 without --force found differences in the last directory only and
\* ended after probing all five
C5_Witness ==
    /\ argv.line.cmd = "stage1"
    /\ ~argv.line.force
    /\ dirty = [d \in Dirs |-> d = samples]
    /\ pc = "exit1"
    /\ error = "Error: Diffs are not allowed"
    /\ ProbedDirs(Len(log)) = relative_dirs
    /\ NothingChangedYet

\* bump --force rewrote the files of a checkout that had differences
C5_WitnessForce ==
    /\ argv.line.cmd = "bump"
    /\ argv.line.force
    /\ dirty[samples]
    /\ pc = "exit0"
    /\ \E i \in Events : log[i].k = "rewrite"
    /\ \A i \in Events : ~DiffProbeAt(i)

\* process what exited 0 in directory dir before event i
Done(what, dir, i) ==
    \E j \in 1..(i - 1) :
        log[j].k = "proc" /\ log[j].what = what /\ log[j].at = dir /\ log[j].n = 0

\* file f was rewritten before event i
RewrittenBefore(f, i) == \E j \in 1..(i - 1) : log[j].k = "rewrite" /\ log[j].at = f

StartedAt(i, what, dir) == log[i].k = "proc" /\ log[i].what = what /\ log[i].at = dir

\* the files changesamples rewrites (a package.json only where there is one)
SamplesFiles ==
    Range(PbxprojFiles) \cup Range(SampleGradleFiles) \cup {SharedGradleFile}
    \cup Range(SampleResolvedFiles)
    \cup {f \in {PackageJson(react_app_dir), PackageJson(token_server_dir)} :
              files[f].exists}

\* the files change rewrites (package.json only if there is one)
ChangeFiles ==
    {PackageSwift, PackageResolved, Podspec, Readme(sdk_ios), Readme(sdk_android), BuildGradle}
    \cup {f \in {PackageJson(sdk_core)} : files[f].exists}

C7_Stage1Order ==
    argv.line.cmd = "stage1" =>
        \A i \in Events :
            /\ (\/ log[i] = Printed("Committing in dir: ", log[i].at)
                \/ \E what \in {"git add .", "git commit", "git push"} :
                       StartedAt(i, what, log[i].at)) =>
                   /\ \A f \in ChangeFiles : RewrittenBefore(f, i)
                   /\ Done("npm install --force", sdk_core, i)
                   /\ log[i].at \in {sdk_ios, sdk_android, sdk_core}
            /\ \A k \in 1..3 :
                   /\ log[i] = Printed("Committing in dir: ", relative_dirs[k]) =>
                          \A before \in 1..(k - 1) : Done("git push", relative_dirs[before], i)
                   /\ StartedAt(i, "git commit", relative_dirs[k]) =>
                          \A j \in 1..(i - 1) : ~StartedAt(j, "git push", relative_dirs[k])
                   /\ StartedAt(i, "git push", relative_dirs[k]) =>
                          /\ \E j \in 1..(i - 1) :
                                 log[j] = Printed("Committing in dir: ", relative_dirs[k])
                          /\ dirty[relative_dirs[k]] = FALSE
                          /\ \A later \in (k + 1)..5 :
                                 \A j \in 1..i :
                                     log[j] # Printed("Committing in dir: ", relative_dirs[later])

\* stage1 ran to its end: the three repositories were committed and pushed
C7_Witness ==
    /\ argv.line.cmd = "stage1"
    /\ pc = "exit0"
    /\ \A d \in {sdk_ios, sdk_android, sdk_core} :
           repo[d].commits = 1 /\ repo[d].pushed = 1
    /\ \A d \in {ui_react, samples} : repo[d].commits = 0 /\ repo[d].pushed = 0

\* v has the form v18.N.* with N a decimal number that is at least 16
AtLeast18_16(v) ==
    \E k \in 1..(Len(v) - 5) :
        /\ SubSeq(v, 1, 4) = "v18."
        /\ \A j \in 5..(4 + k) : IsDigit(CharAt(v, j))
        /\ CharAt(v, 5 + k) = "."
        /\ int(SubSeq(v, 5, 4 + k)) >= 16

\* the handler of the subcommand has been entered
HandlerEntered ==
    \/ pc = "running" /\ todo # <<>> /\ Head(todo).op # "check_node_version"
    \/ pc = "exit0"
    \/ \E i \in Events : i > 2 /\ log[i].k # "error"
    \/ Len(log) > 3

C8_WitnessAccepted == argv.line.cmd = "stage1" /\ nodeOut = "v18.100.2" /\ HandlerEntered

\* the directories the command given to do was run in, among the first n events
RECURSIVE DoDirs(_)
DoDirs(n) ==
    IF n = 0 THEN <<>>
    ELSE DoDirs(n - 1) \o (IF DoCommandAt(n) THEN <<log[n].at>> ELSE <<>>)

\* C9: do runs the given command once in each of the five directories, in the
\* order mobile-sdk-ios, mobile-sdk-android, mobile-sdk-core, mobile-ui-react,
\* mobile-samples, and goes on to the next directory, and ends successfully,
\* whatever status the command exits with.
C9_DoEveryDir ==
    argv.line.cmd = "do" =>
        /\ \E k \in 0..Len(relative_dirs) : DoDirs(Len(log)) = SubSeq(relative_dirs, 1, k)
        /\ \A i \in Events : DoCommandAt(i) => log[i].what = "git status" /\ ~RaisedAt(i)
        /\ pc = "exit0" => DoDirs(Len(log)) = relative_dirs
        /\ pc = "exit1" => DoDirs(Len(log)) = <<>>

\* the command failed in the first four directories and was run in the fifth
C9_Witness ==
    /\ argv.line.cmd = "do"
    /\ pc = "exit0"
    /\ DoDirs(Len(log)) = relative_dirs
    /\ \A i \in Events :
           DoCommandAt(i) => (log[i].n # 0 <=> log[i].at # samples)

\* C10: do with -p prints the name of each directory it runs the command in;
\* without -p it prints no directory.
C10_PrintEachDir ==
    argv.line.cmd = "do" =>
        \A i \in Events :
            DoCommandAt(i) =>
                (argv.line.print <=>
                     \E j \in 1..(i - 1) : log[j].k = "print" /\ log[j].at = log[i].at)

(***************************************************************************)
(* get_last_release and get_next_release on their own: mobile-sdk-ios      *)
(* holds any set of the tags of TagUniverse.                               *)
(***************************************************************************)
TagUniverse ==
    {"0.22.0", "0.22.4", "0.22.10", "0.21.12", "v0.22.11", "0.22.12-rc1", "0.22-13",
     "0.2214", "0.22.07"}

InitLastRelease ==
    /\ pc = "get_last_release"
    /\ \E tags \in SUBSET TagUniverse : repo = [d \in Dirs |-> InitialRepo(tags)]
    /\ last = ""
    /\ next = Pending
    /\ argv = [line |-> [cmd |-> "", given |-> FALSE, force |-> FALSE, print |-> FALSE],
               environ |-> NoEnviron]
    /\ args = NoAttributes
    /\ todo = <<>>
    /\ log = <<>>
    /\ error = ""
    /\ dirty = Clean
    /\ files = ShippedFiles
    /\ nodeOut = ""
    /\ latest_versions = [key \in {} |-> ""]

call_get_last_release ==
    /\ pc = "get_last_release"
    /\ last' = get_last_release(repo[sdk_ios].tags)
    /\ pc' = "get_next_release"
    /\ UNCHANGED <<argv, args, todo, log, error, dirty, files, repo, nodeOut,
                   latest_versions, next>>

NextLastRelease == call_get_last_release \/ call_get_next_release

SpecLastRelease == InitLastRelease /\ [][NextLastRelease]_vars

\* the tags that are the text base followed by one or more digits
ExactTags(tags, base) ==
    {t \in tags : /\ Len(t) > Len(base)
                  /\ SubSeq(t, 1, Len(base)) = base
                  /\ \A i \in (Len(base) + 1)..Len(t) : IsDigit(CharAt(t, i))}

PatchOf(tag, base) == int(SubSeq(tag, Len(base) + 1, Len(tag)))

Largest(numbers) == CHOOSE n \in numbers : \A m \in numbers : m <= n

\* C11: get_last_release returns mobile_base_version followed by the largest
\* patch number N among the tags that are exactly the last base version of
\* mobile_base_version_search_list followed by digits, and by 0 when there is
\* no such tag; every other tag is ignored.  The result is a numeric dotted
\* triple, and the release get_next_release computes from it has a patch
\* number greater than that of every such tag, so it is no existing tag.
C11_LastRelease ==
    pc \in {"get_next_release", "returned"} =>
        LET tags == repo[sdk_ios].tags
            base == mobile_base_version_search_list[Len(mobile_base_version_search_list)]
            exact == ExactTags(tags, base)
            N == Largest({PatchOf(t, base) : t \in exact} \cup {0})
            parts == split(last)
        IN  /\ last = mobile_base_version \o str(N)
            /\ Len(parts) = 3
            /\ \A i \in 1..3 : parts[i] # "" /\ AllDigits(parts[i])
            /\ pc = "returned" =>
                   /\ next.ok
                   /\ \A t \in ExactTags(tags, mobile_base_version) :
                          int(split(next.v)[3]) > PatchOf(t, mobile_base_version)
                   /\ next.v \notin tags
                   /\ next.v # mobile_base_version \o "0"

\* with every tag of TagUniverse the last release is 0.22.10, the next 0.22.11
C11_Witness ==
    /\ pc = "returned"
    /\ repo[sdk_ios].tags = TagUniverse
    /\ last = "0.22.10"
    /\ next.ok
    /\ next.v = "0.22.11"

(***************************************************************************)
(* The runs of every command line in a clean checkout as shipped, with     *)
(* each ITM_ variable unset, set to the empty string, or set to a version. *)
(***************************************************************************)
EnvValues ==
    [new_mobile |-> "0.22.8", new_itwin |-> "4.4.5", new_add_on |-> "4.4.15",
     new_add_on_commit_id |-> "c0de"]

Environs ==
    {[NoEnviron EXCEPT !.new_mobile = m, !.new_itwin = i, !.new_add_on = a,
                       !.new_add_on_commit_id = c] :
        m \in {None, "", EnvValues.new_mobile}, i \in {None, "", EnvValues.new_itwin},
        a \in {None, "", EnvValues.new_add_on},
        c \in {None, "", EnvValues.new_add_on_commit_id}}

InitVersions ==
    /\ pc = "start"
    /\ \E l \in Distinct(CommandLines), e \in Environs : argv = [line |-> l, environ |-> e]
    /\ dirty = Clean
    /\ files = ShippedFiles
    /\ args = NoAttributes
    /\ todo = <<>>
    /\ log = <<>>
    /\ error = ""
    /\ repo = [d \in Dirs |-> InitialRepo(InitialTags \ {"0.22.5"})]
    /\ nodeOut = ""
    /\ latest_versions = [key \in {} |-> ""]
    /\ last = ""
    /\ next = Pending

SpecVersions == InitVersions /\ [][Next]_vars

\* what the command line gives for an option: Absent when the subcommand has
\* no such option, None when the option was left out
Flag(name) ==
    parse_args(argv.line.cmd, argv.line.given, argv.line.force, argv.line.print)[name]

VersionNames == {EnvOrder[i] : i \in 1..Len(EnvOrder)}

\* the commands that determine new_mobile in the current mode
CurrentModeCommands == {"bumpitwin", "test"}

\* the values a command determines by itself, from the tags and from what npm
\* and git ls-remote answer
Automatic(name) ==
    IF name = "new_mobile"
    THEN {IF argv.line.cmd \in CurrentModeCommands
          THEN get_last_release(repo[sdk_ios].tags)
          ELSE get_next_release(get_last_release(repo[sdk_ios].tags)).v}
    ELSE IF name = "new_itwin" THEN {Latest(ItwinKey)}
    ELSE IF name = "new_add_on" THEN NativeVersions
    ELSE RemoteCommitIds

\* C12 as stated: each of new_mobile, new_itwin, new_add_on and
\* new_add_on_commit_id is the ITM_ variable if that is set, else the flag if
\* it was given, else the automatically determined value; a supplied
\* non-empty value is never overwritten; the automatic new_mobile is the
\* release after the last release tag, and the last release itself in the
\* current mode.
C12_AsStated ==
    [][\A name \in VersionNames :
           /\ argv.environ[name] # None => args'[name] = argv.environ[name]
           /\ (argv.environ[name] = None /\ Flag(name) \notin {Absent, None}) =>
                  args'[name] = Flag(name)
           /\ (pc # "start" /\ args'[name] # args[name]) =>
                  ~Truthy(args, name) /\ args'[name] \in Automatic(name)]_vars

\* C12 amended: when the script starts each of the four values is the ITM_
\* variable if that is set, even to the empty string, else the flag; after
\* that a value changes only while it is missing or empty, and then to the
\* automatically determined value (for new_mobile the release after the last
\* release tag, the last release itself in bumpitwin and test), so that a
\* non-empty variable or, with the variable unset, a non-empty flag is the
\* value used to the end.  Only changesamplestest replaces the values by
\* fixed test strings.
C12_Precedence ==
    [][\A name \in VersionNames :
           /\ pc = "start" =>
                  args'[name] = IF argv.environ[name] # None THEN argv.environ[name]
                                ELSE Flag(name)
           /\ (pc # "start" /\ args'[name] # args[name]) =>
                  IF argv.line.cmd = "changesamplestest"
                  THEN args'[name] = name
                  ELSE ~Truthy(args, name) /\ args'[name] \in Automatic(name)]_vars

\* bumpitwin with all flags given, ITM_NEW_MOBILE set to a version and
\* ITM_NEW_ITWIN set to the empty string ran to its end with the version of
\* the variable and the latest iTwin version, not the flags
C12_Witness ==
    /\ argv.line.cmd = "bumpitwin"
    /\ argv.line.given
    /\ argv.environ.new_mobile = EnvValues.new_mobile
    /\ argv.environ.new_itwin = ""
    /\ argv.environ.new_add_on = None
    /\ pc = "exit0"
    /\ args.new_mobile = EnvValues.new_mobile
    /\ args.new_itwin = Latest(ItwinKey)
    /\ args.new_add_on = Flag("new_add_on")

(***************************************************************************)
(* modify_readme_md on mobile-sdk-ios/README.md on its own: the README     *)
(* holds up to MaxCopies lines of each kind of ReadmeLines.                *)
(***************************************************************************)
MaxCopies == 2

\* the kinds of version reference of the README as shipped, and a download URL
\* of an older iTwin base version
ReadmeLines ==
    Shipped(Readme(sdk_ios))
    \o <<Line("https://github.com/iTwin/mobile-native-ios/releases/download/", "",
              "4.3.9", "")>>

RECURSIVE ReadmeOf(_, _)
ReadmeOf(copies, n) ==
    IF n = 0 THEN <<>>
    ELSE ReadmeOf(copies, n - 1) \o [i \in 1..copies[n] |-> ReadmeLines[n]]

InitReadme ==
    /\ pc = "modify_readme_md"
    /\ \E copies \in [1..Len(ReadmeLines) -> 0..MaxCopies] :
           files = [ShippedFiles EXCEPT
                       ![Readme(sdk_ios)] = File(ReadmeOf(copies, Len(ReadmeLines)))]
    /\ args = parse_args("change", TRUE, FALSE, FALSE)
    /\ argv = [line |-> [cmd |-> "change", given |-> TRUE, force |-> FALSE,
                         print |-> FALSE],
               environ |-> NoEnviron]
    /\ todo = <<>>
    /\ log = <<>>
    /\ error = ""
    /\ dirty = Clean
    /\ repo = [d \in Dirs |-> InitialRepo(InitialTags)]
    /\ nodeOut = ""
    /\ latest_versions = [key \in {} |-> ""]
    /\ last = ""
    /\ next = Pending

call_modify_readme_md ==
    /\ pc = "modify_readme_md"
    /\ LET file == Readme(sdk_ios)
           r == modify_readme_md(args, sdk_ios, files[file])
       IN  /\ files' = [files EXCEPT ![file].lines = r.lines]
           /\ dirty' = [dirty EXCEPT ![sdk_ios] = @ \/ r.lines # files[file].lines]
           /\ log' = log \o <<Rewrite("modify_readme_md", file, r.n)>>
           /\ error' = r.err
    /\ pc' = "returned"
    /\ UNCHANGED <<argv, args, todo, repo, nodeOut, latest_versions, last, next>>

NextReadme == call_modify_readme_md

SpecReadme == InitReadme /\ [][NextReadme]_vars

\* the README has a line of this kind
HasKind(anchor) ==
    \E i \in 1..Len(files[Readme(sdk_ios)].lines) :
        files[Readme(sdk_ios)].lines[i].k = anchor

IosKinds ==
    {"Dependency Rule to Exact Version and the version to ",
     "https://github.com/iTwin/mobile-sdk-ios, .exact(",
     "https://github.com/iTwin/mobile-native-ios/releases/download/",
     "https://github.com/iTwin/mobile-sdk-ios/releases/download/",
     "itwin-mobile-native CocoaPod to version "}

\* C13: modify_readme_md on mobile-sdk-ios/README.md returns without error
\* only if the README has an iTwin.js version reference and a version
\* reference of each of the five kinds of the mobile-sdk-ios README; a README
\* that lacks one of them makes it raise Not enough replacements.
C13_EveryKind ==
    pc = "returned" =>
        \/ HasKind("__iTwin.js ") /\ \A anchor \in IosKinds : HasKind(anchor)
        \/ error = "Not enough replacements"

(***************************************************************************)
(* modify_project_pbxproj on its own: a project file of up to MaxRefs      *)
(* package references in any order, each with an exact version or with a   *)
(* branch as its requirement.                                              *)
(***************************************************************************)
MaxRefs == 3

SdkIosUrl == "https://github.com/iTwin/mobile-sdk-ios.git"

\* an XCRemoteSwiftPackageReference: its repositoryURL line and its requirement
PackageReferences ==
    {<<Line("repositoryURL", "", url, ""), requirement>> :
        url \in {SdkIosUrl, "https://github.com/apple/swift-collections.git"},
        requirement \in {Line("version = ", "", "1.0.4", ""), Line("branch = ", "", "main", "")}}

RECURSIVE Projects(_)
Projects(n) ==
    IF n = 0 THEN {<<Text("objectVersion = 56;")>>}
    ELSE Projects(n - 1)
         \cup {project \o reference : project \in Projects(n - 1),
                                      reference \in PackageReferences}

NewMobiles == {"0.22.5", "0.22.5-rc1", "0.22.5a"}

InitPbxproj ==
    /\ pc = "modify_project_pbxproj"
    /\ \E project \in Projects(MaxRefs) :
           files = [ShippedFiles EXCEPT ![PbxprojFiles[1]] = File(project)]
    /\ \E new_mobile \in NewMobiles :
           args = [parse_args("change", TRUE, FALSE, FALSE) EXCEPT !.new_mobile = new_mobile]
    /\ argv = [line |-> [cmd |-> "change", given |-> TRUE, force |-> FALSE,
                         print |-> FALSE],
               environ |-> NoEnviron]
    /\ todo = <<>>
    /\ log = <<>>
    /\ error = ""
    /\ dirty = Clean
    /\ repo = [d \in Dirs |-> InitialRepo(InitialTags)]
    /\ nodeOut = ""
    /\ latest_versions = [key \in {} |-> ""]
    /\ last = ""
    /\ next = Pending

call_modify_project_pbxproj ==
    /\ pc = "modify_project_pbxproj"
    /\ LET file == PbxprojFiles[1]
           r == modify_project_pbxproj(args, files[file])
       IN  /\ files' = [files EXCEPT ![file].lines = r.lines]
           /\ dirty' = [dirty EXCEPT ![samples] = @ \/ r.lines # files[file].lines]
           /\ log' = log \o <<Rewrite("modify_project_pbxproj", file, r.n)>>
           /\ error' = r.err
    /\ pc' = "returned"
    /\ UNCHANGED <<argv, args, todo, repo, nodeOut, latest_versions, last, next>>

NextPbxproj == call_modify_project_pbxproj

SpecPbxproj == InitPbxproj /\ [][NextPbxproj]_vars

\* the repositoryURL line of the package reference that line i is in, or 0
ReferenceOf(lines, i) ==
    LET urls == {j \in 1..i : lines[j].k = "repositoryURL"}
    IN  IF urls = {} THEN 0 ELSE CHOOSE j \in urls : \A h \in urls : h <= j

\* line i is the first version line after a repositoryURL line of mobile-sdk-ios
\* that is in the package reference of that line
SdkIosVersionLine(lines, i) ==
    /\ lines[i].k = "version = "
    /\ ReferenceOf(lines, i) # 0
    /\ lines[ReferenceOf(lines, i)].v = SdkIosUrl
    /\ \A j \in ReferenceOf(lines, i)..(i - 1) : lines[j].k # "version = "

QuotedNewMobile ==
    IF \E i \in 1..Len(args.new_mobile) :
           CharAt(args.new_mobile, i) \in {"-", "a", "c", "r"}
    THEN "\"" \o args.new_mobile \o "\"" ELSE args.new_mobile

\* C14: modify_project_pbxproj sets the version line of every package
\* reference of https://github.com/iTwin/mobile-sdk-ios.git to new_mobile, in
\* double quotes when new_mobile has a lowercase letter or a hyphen, and writes
\* every other line back unchanged, the version line of every other package
\* reference included, whatever the order and number of package references.
C14_OnlySdkIos ==
    [][pc = "modify_project_pbxproj" =>
        LET before == files[PbxprojFiles[1]].lines
            after == files'[PbxprojFiles[1]].lines
        IN  /\ Len(after) = Len(before)
            /\ \A i \in 1..Len(before) :
                   after[i] = IF SdkIosVersionLine(before, i)
                              THEN [before[i] EXCEPT !.v = QuotedNewMobile]
                              ELSE before[i]]_vars

(***************************************************************************)
(* release_dir: the processes it starts, read from the log.                *)
(***************************************************************************)
\* event r is the print that opens release_dir(dir)
Releasing(r, dir) ==
    log[r].k = "print" /\ log[r].what = "Releasing in dir: " /\ log[r].at = dir

\* the last event of the release_dir opened at r
ReleaseEnd(r) ==
    LET later == {j \in (r + 1)..Len(log) :
                     log[j].k = "print" /\ log[j].what = "Releasing in dir: "}
    IN  IF later = {} THEN Len(log)
        ELSE (CHOOSE j \in later : \A h \in later : j <= h) - 1

ReleaseProcesses ==
    {"git checkout main", "git pull", "git tag", "git push tag", "gh release create",
     "gh release upload itwin-mobile-sdk.podspec",
     "gh release upload AsyncLocationKit.podspec"}

\* the processes started in dir by the release_dir opened at r, in order
RECURSIVE Started(_, _, _)
Started(dir, from, to) ==
    IF from > to THEN <<>>
    ELSE (IF log[from].k = "proc" /\ log[from].at = dir
             /\ log[from].what \in ReleaseProcesses
          THEN <<log[from]>> ELSE <<>>)
         \o Started(dir, from + 1, to)

ReleaseOrder(dir) ==
    <<"git checkout main", "git pull", "git tag", "git push tag", "gh release create",
      "git pull">>
    \o (IF dir = "mobile-sdk-ios"
        THEN <<"gh release upload itwin-mobile-sdk.podspec",
               "gh release upload AsyncLocationKit.podspec">>
        ELSE <<>>)

\* C15: the processes release_dir starts in a repository are, in this order,
\* checkout main, pull, tag new_mobile, push the tag, gh release create, pull,
\* and for mobile-sdk-ios alone the upload of itwin-mobile-sdk.podspec and of
\* AsyncLocationKit.podspec; each one is started only when all the ones
\* before it exited with 0, so that the release follows the tag and its push
\* and the uploads follow the release of mobile-sdk-ios.
C15_ReleaseOrder ==
    \A r \in 1..Len(log) : \A dir \in Dirs :
        Releasing(r, dir) =>
            LET started == Started(dir, r + 1, ReleaseEnd(r))
            IN  /\ Len(started) <= Len(ReleaseOrder(dir))
                /\ \A i \in 1..Len(started) :
                       /\ started[i].what = ReleaseOrder(dir)[i]
                       /\ i < Len(started) => started[i].n = 0
                /\ \A j \in 1..Len(log) :
                       log[j].k = "proc" /\ HasPrefix(log[j].what, "gh release upload")
                           => log[j].at = "mobile-sdk-ios"

\* stage3 has released mobile-sdk-ios with both uploads and then every other
\* repository without one
C15_Witness ==
    /\ pc = "exit0"
    /\ argv.line.cmd = "stage3"
    /\ \A dir \in Dirs :
           \E r \in 1..Len(log) :
               /\ Releasing(r, dir)
               /\ Len(Started(dir, r + 1, ReleaseEnd(r))) = Len(ReleaseOrder(dir))
    /\ repo["mobile-sdk-ios"].assets = {"itwin-mobile-sdk.podspec", "AsyncLocationKit.podspec"}
    /\ \A dir \in Dirs \ {"mobile-sdk-ios"} : repo[dir].assets = {}

====
